---- MODULE Spec2Model ----
(***************************************************************************)
(* Planning Poker: consensus engine (voting_logic.py), similarity          *)
(* retrieval (ai/embeddings.py), story point extraction                    *)
(* (ai/estimation.py) and the voting round state kept in the database      *)
(* (database.py) as driven by the request handlers and the AI background   *)
(* task (app.py).                                                          *)
(***************************************************************************)
EXTENDS Integers, Sequences, FiniteSets, TLC

VARIABLES
    vote_values,    \* check_consensus / calculate_alternative_value: argument
    highest_value,  \* calculate_alternative_value: second argument, None before the call
    cc_result,      \* what check_consensus returned, or NotCalled
    alt_result,     \* what calculate_alternative_value returned, or NotCalled
    query_embedding,        \* find_similar_chunks: argument
    candidate_embeddings,   \* find_similar_chunks: argument, <<chunk_id, embedding>> pairs
    top_k,                  \* find_similar_chunks: argument
    min_similarity,         \* find_similar_chunks: argument
    similar_result,         \* what find_similar_chunks returned or raised, or NotCalled
    text,                   \* extract_story_points: argument, a sequence of characters
    points_result,          \* what extract_story_points returned, or NotCalled
    ai_enabled,     \* ENABLE_AI_ASSISTANT and AI_AVAILABLE and is_ai_enabled()
    users,          \* table users: name -> is_spectator
    stories,        \* table stories: id -> [status, round, creator_name, auto_start]
    next_story_id,  \* the id the next inserted story gets (AUTOINCREMENT)
    votes,          \* table votes: rows [story_id, user_name, points, round, voted_at]
    clock,          \* datetime.now(), counted in votes cast
    ai_tasks,       \* background tasks in start order: [story_id, pc, points, round,
                    \*   triggered_round, model_calls, evidence, events]
    requests,       \* requests whose handler is between two database accesses
    ch_strategy,    \* chunking: the strategy object, [type, ...parameters]
    ch_text,        \* chunking: the text argument, None or a sequence of characters
    ch_pc,          \* chunking: "idle", "called", "loop" (in FixedSizeChunking's while), "returned", "raised"
    ch_loop,        \* chunking: FixedSizeChunking's [chunk_size, overlap, start, index]
    ch_chunks,      \* chunking: the list chunks, returned when ch_pc = "returned"
    ai_chunks,          \* table ai_chunks: rows [id, source_id, chunk_index, chunk_strategy, chunk_text]
    ai_embeddings,      \* table ai_embeddings: rows [id, chunk_id, embedding_model, embedding_vector]
    next_chunk_id,      \* the id the next inserted chunk gets (AUTOINCREMENT)
    next_embedding_id,  \* the id the next inserted embedding gets (AUTOINCREMENT)
    runs,               \* chunk-and-embed pipeline runs and batch calls in progress
    estimation          \* the last call of estimate_story_with_ai, or NotCalled

varsConsensus == <<vote_values, highest_value, cc_result, alt_result>>

varsSimilar ==
    <<query_embedding, candidate_embeddings, top_k, min_similarity, similar_result>>

varsExtract == <<text, points_result>>

varsApp == <<ai_enabled, users, stories, next_story_id, votes, clock, ai_tasks, requests>>

varsChunk == <<ch_strategy, ch_text, ch_pc, ch_loop, ch_chunks>>

varsAi == <<ai_chunks, ai_embeddings, next_chunk_id, next_embedding_id, runs, estimation>>

vars == <<varsConsensus, varsSimilar, varsExtract, varsApp, varsChunk, varsAi>>

----------------------------------------------------------------------------
(* Generic helpers *)

\* Optional[int]: None is the empty tuple, a value v is <<v>>.
None == <<>>
Some(v) == <<v>>

\* A harness result: NotCalled before the call, Returned(x) after it returned x.
NotCalled == <<>>
Returned(x) == <<x>>

Range(s) == {s[i] : i \in 1..Len(s)}

\* All sequences over S of length 0..n.
SeqsUpTo(S, n) == UNION {[1..k -> S] : k \in 0..n}

----------------------------------------------------------------------------
(* voting_logic.py *)

FIBONACCI == <<0, 1, 2, 3, 5, 8, 13, 21, 34, 55, 89>>

\* list.index: the first position holding v, 0 when v is absent (ValueError).
ListIndex(s, v) ==
    IF v \in Range(s) THEN CHOOSE i \in 1..Len(s) : s[i] = v /\ \A j \in 1..(i - 1) : s[j] # v
    ELSE 0

\* Counter(vote_values): <<value, count>> pairs in first-insertion order.
RECURSIVE Counter(_)
Counter(s) ==
    IF s = <<>> THEN <<>>
    ELSE LET c == Counter(SubSeq(s, 1, Len(s) - 1))
             v == s[Len(s)]
             at == {i \in 1..Len(c) : c[i][1] = v}
         IN  IF at = {} THEN Append(c, <<v, 1>>)
             ELSE [i \in 1..Len(c) |-> IF i \in at THEN <<v, c[i][2] + 1>> ELSE c[i]]

\* max(items, key=count): the first pair with the largest count.
RECURSIVE FirstMaxFrom(_, _, _)
FirstMaxFrom(c, i, best) ==
    IF i > Len(c) THEN best
    ELSE FirstMaxFrom(c, i + 1, IF c[i][2] > best[2] THEN c[i] ELSE best)

\* Counter.most_common(1)[0] of a non-empty counter.
most_common(c) == FirstMaxFrom(c, 2, c[1])

\* max(vote_values) of a non-empty list.
Max(S) == CHOOSE m \in S : \A x \in S : x <= m

\* sorted(set(vote_values), reverse=True)
RECURSIVE SortedDesc(_)
SortedDesc(S) ==
    IF S = {} THEN <<>>
    ELSE <<Max(S)>> \o SortedDesc(S \ {Max(S)})

\* Mutant: the "more than one vote" condition on the majority value is dropped.
calculate_alternative_value_NoCountCheck(vs, highest) ==
    IF Len(vs) <= 1 THEN None
    ELSE LET counter == Counter(vs)
             most_common_value == most_common(counter)[1]
             sorted_unique == SortedDesc(Range(vs))
         IN  IF most_common_value # highest
             THEN Some(most_common_value)
             ELSE IF Len(sorted_unique) >= 2 THEN Some(sorted_unique[2])
             ELSE None

calculate_alternative_value(vs, highest) ==
    IF Len(vs) <= 1 THEN None
    ELSE LET counter == Counter(vs)
             mc == most_common(counter)
             most_common_value == mc[1]
             sorted_unique == SortedDesc(Range(vs))
         IN  IF most_common_value # highest /\ mc[2] > 1
             THEN Some(most_common_value)
             ELSE IF Len(sorted_unique) >= 2 THEN Some(sorted_unique[2])
             ELSE None

\* Fall 2 of check_consensus: exactly one vote deviates, by one scale step.
IsNearConsensus(vs) ==
    /\ Len(vs) >= 2
    /\ LET mc == most_common(Counter(vs))
       IN  /\ mc[2] = Len(vs) - 1
           /\ \E value \in Range(vs) :
                /\ value # mc[1]
                /\ ListIndex(FIBONACCI, mc[1]) # 0
                /\ ListIndex(FIBONACCI, value) # 0
                /\ LET d == ListIndex(FIBONACCI, mc[1]) - ListIndex(FIBONACCI, value)
                   IN  d = 1 \/ d = 0 - 1

\* Mutant: a near consensus is reported as a consensus.
check_consensus_NearIsConsensus(vs) ==
    IF Len(vs) < 1 THEN [outcome |-> "divergence", suggested |-> None, alternative |-> None]
    ELSE IF Cardinality(Range(vs)) = 1 \/ IsNearConsensus(vs)
    THEN [outcome |-> "consensus",
          suggested |-> Some(most_common(Counter(vs))[1]), alternative |-> None]
    ELSE [outcome |-> "divergence", suggested |-> Some(Max(Range(vs))),
          alternative |-> calculate_alternative_value(vs, Max(Range(vs)))]

\* Mutant: the divergence case suggests the most frequent value, not the highest.
check_consensus_SuggestsMajority(vs) ==
    IF Len(vs) < 1 THEN [outcome |-> "divergence", suggested |-> None, alternative |-> None]
    ELSE IF Cardinality(Range(vs)) = 1
    THEN [outcome |-> "consensus",
          suggested |-> Some(CHOOSE v \in Range(vs) : TRUE), alternative |-> None]
    ELSE IF IsNearConsensus(vs)
    THEN [outcome |-> "near_consensus",
          suggested |-> Some(most_common(Counter(vs))[1]), alternative |-> None]
    ELSE [outcome |-> "divergence", suggested |-> Some(most_common(Counter(vs))[1]),
          alternative |-> calculate_alternative_value(vs, Max(Range(vs)))]

check_consensus(vs) ==
    IF Len(vs) < 1 THEN [outcome |-> "divergence", suggested |-> None, alternative |-> None]
    ELSE IF Cardinality(Range(vs)) = 1
    THEN [outcome |-> "consensus",
          suggested |-> Some(CHOOSE v \in Range(vs) : TRUE), alternative |-> None]
    ELSE IF IsNearConsensus(vs)
    THEN [outcome |-> "near_consensus",
          suggested |-> Some(most_common(Counter(vs))[1]), alternative |-> None]
    ELSE [outcome |-> "divergence", suggested |-> Some(Max(Range(vs))),
          alternative |-> calculate_alternative_value(vs, Max(Range(vs)))]

----------------------------------------------------------------------------
(* ai/estimation.py: extract_story_points.                                  *)
(*                                                                          *)
(* A response text is a sequence of characters: LABEL stands for the text   *)
(* "STORY POINTS:" in any case, " " for a whitespace character, "0".."9"    *)
(* for the digits and "x" for any other character.                          *)

LABEL == "L"
DigitValue ==
    [c \in {"0", "1", "2", "3", "4", "5", "6", "7", "8", "9"} |->
        CASE c = "0" -> 0 [] c = "1" -> 1 [] c = "2" -> 2 [] c = "3" -> 3 [] c = "4" -> 4
          [] c = "5" -> 5 [] c = "6" -> 6 [] c = "7" -> 7 [] c = "8" -> 8 [] c = "9" -> 9]

IsDigit(c) == c \in DOMAIN DigitValue
IsSpace(c) == c = " "

\* \s* from position i: the first position at or after i that holds no whitespace
RECURSIVE SkipSpaces(_, _)
SkipSpaces(t, i) ==
    IF i <= Len(t) /\ IsSpace(t[i]) THEN SkipSpaces(t, i + 1) ELSE i

\* \d+ from position i: the position behind the longest run of digits from i
RECURSIVE DigitsEnd(_, _)
DigitsEnd(t, i) ==
    IF i <= Len(t) /\ IsDigit(t[i]) THEN DigitsEnd(t, i + 1) ELSE i

\* int(match.group(1)) for the digits t[i..j-1]
RECURSIVE ParseInt(_, _, _)
ParseInt(t, i, j) ==
    IF j <= i THEN 0 ELSE 10 * ParseInt(t, i, j - 1) + DigitValue[t[j - 1]]

\* STORY POINTS:\s*(\d+) matched at position i: the group as an integer, or None
MatchLabelledAt(t, i) ==
    IF t[i] # LABEL THEN None
    ELSE LET j == SkipSpaces(t, i + 1)
             e == DigitsEnd(t, j)
         IN  IF e > j THEN Some(ParseInt(t, j, e)) ELSE None

\* Mutant: the search keeps the last match in the text.
RECURSIVE SearchLabelled_Last(_, _)
SearchLabelled_Last(t, i) ==
    IF i > Len(t) THEN None
    ELSE IF SearchLabelled_Last(t, i + 1) # None THEN SearchLabelled_Last(t, i + 1)
    ELSE MatchLabelledAt(t, i)

\* re.search(r'STORY POINTS:\s*(\d+)', text, re.IGNORECASE) from position i:
\* the leftmost match
RECURSIVE SearchLabelled(_, _)
SearchLabelled(t, i) ==
    IF i > Len(t) THEN None
    ELSE IF MatchLabelledAt(t, i) # None THEN MatchLabelledAt(t, i)
    ELSE SearchLabelled(t, i + 1)

\* re.search(r'^\s*(\d+)', text): an integer behind leading whitespace only
MatchLeading(t) ==
    LET j == SkipSpaces(t, 1)
        e == DigitsEnd(t, j)
    IN  IF e > j THEN Some(ParseInt(t, j, e)) ELSE None

\* fibonacci of extract_story_points
ESTIMATION_SCALE == <<1, 2, 3, 5, 8, 13, 21, 34, 55, 89>>

\* Mutant: a value between two scale steps goes to the lower one.
SnapToScale_Down(points) ==
    IF points \in Range(ESTIMATION_SCALE) THEN points
    ELSE LET below == {i \in 1..Len(ESTIMATION_SCALE) : ESTIMATION_SCALE[i] <= points}
         IN  IF below = {} THEN ESTIMATION_SCALE[1]
             ELSE ESTIMATION_SCALE[Max(below)]

\* Lines 258-265: the value itself when on the scale, else the first scale
\* value that is >= points, else the last scale value.
SnapToScale(points) ==
    IF points \in Range(ESTIMATION_SCALE) THEN points
    ELSE LET reached == {i \in 1..Len(ESTIMATION_SCALE) : ESTIMATION_SCALE[i] >= points}
         IN  IF reached # {}
             THEN ESTIMATION_SCALE[CHOOSE i \in reached : \A j \in reached : i <= j]
             ELSE ESTIMATION_SCALE[Len(ESTIMATION_SCALE)]

DEFAULT_POINTS == 5

extract_story_points(t) ==
    LET match == SearchLabelled(t, 1)
    IN  IF match # None THEN SnapToScale(match[1])
        ELSE IF MatchLeading(t) # None THEN MatchLeading(t)[1]
        ELSE DEFAULT_POINTS

----------------------------------------------------------------------------
(* database.py: the tables users, stories and votes.                        *)

AI_USER_NAME == "AI Assistant"

\* get_user_by_name(name) is not None
UserExists(name) == name \in DOMAIN users

\* create_user: a new row has is_spectator = 0; an existing row keeps it
create_user(us, name) ==
    IF name \in DOMAIN us THEN us
    ELSE [n \in DOMAIN us \cup {name} |-> IF n = name THEN FALSE ELSE us[n]]

\* get_story_by_id(story_id) is not None
StoryExists(story_id) == story_id \in DOMAIN stories

\* get_active_story: the newest story in status voting or revealed, or None
get_active_story ==
    LET active == {id \in DOMAIN stories : stories[id].status \in {"voting", "revealed"}}
    IN  IF active = {} THEN None ELSE Some(Max(active))

\* get_next_auto_start_story: the oldest pending story with auto_start, or None
get_next_auto_start_story(st) ==
    LET waiting == {id \in DOMAIN st : st[id].status = "pending" /\ st[id].auto_start}
    IN  IF waiting = {} THEN None
        ELSE Some(CHOOSE id \in waiting : \A other \in waiting : id <= other)

\* update_story_status
update_story_status(st, story_id, status) ==
    IF story_id \in DOMAIN st THEN [st EXCEPT ![story_id].status = status] ELSE st

\* update_story_round
update_story_round(st, story_id, round_num) ==
    IF story_id \in DOMAIN st THEN [st EXCEPT ![story_id].round = round_num] ELSE st

\* The rows of vs with the unique key (story_id, user_name, round).
VotesWithKey(vs, story_id, user_name, round_num) ==
    {v \in vs : v.story_id = story_id /\ v.user_name = user_name /\ v.round = round_num}

\* Mutant: a plain INSERT, without the ON CONFLICT clause and the UNIQUE index.
cast_vote_InsertOnly(vs, story_id, user_name, points, round_num, now) ==
    vs \cup {[story_id |-> story_id, user_name |-> user_name, points |-> points,
              round |-> round_num, voted_at |-> now]}

\* cast_vote: INSERT ... ON CONFLICT(story_id, user_name, round) DO UPDATE SET
\* points, voted_at
cast_vote(vs, story_id, user_name, points, round_num, now) ==
    (vs \ VotesWithKey(vs, story_id, user_name, round_num))
        \cup {[story_id |-> story_id, user_name |-> user_name, points |-> points,
                round |-> round_num, voted_at |-> now]}

\* check_all_active_users_voted: there are users who are no spectators, and
\* the votes of the round by users who are no spectators are as many
check_all_active_users_voted(vs, us, story_id, round_num) ==
    LET active_count == Cardinality({n \in DOMAIN us : ~us[n]})
        vote_count == Cardinality({v \in vs :
                          /\ v.story_id = story_id
                          /\ v.round = round_num
                          /\ v.user_name \in DOMAIN us
                          /\ ~us[v.user_name]})
    IN  active_count > 0 /\ active_count = vote_count

----------------------------------------------------------------------------
(* ai/chunking.py. A text is a sequence of characters: "a" stands for a       *)
(* letter, "." for one of the sentence ends . ! ?, " " for a space and "\n"   *)
(* for a newline. Positions in the code count from 0, positions in a         *)
(* sequence from 1.                                                          *)

\* The argument text: None, or a string.
PyNone == [none |-> TRUE, chars |-> <<>>]
Str(t) == [none |-> FALSE, chars |-> t]

\* not text
NotText(x) == x.none \/ x.chars = <<>>

\* str.isspace for one character
IsWhitespace(c) == c \in {" ", "\n"}

Min(S) == CHOOSE m \in S : \A x \in S : m <= x

\* How a slice bound i is read for a string of length n: a negative bound
\* counts from the end, and every bound is clipped to 0..n.
SliceBound(i, n) ==
    IF i < 0 THEN (IF i + n < 0 THEN 0 ELSE i + n)
    ELSE IF i > n THEN n ELSE i

\* t[start:end]
Slice(t, start, end) ==
    LET s == SliceBound(start, Len(t))
        e == SliceBound(end, Len(t))
    IN  IF s >= e THEN <<>> ELSE SubSeq(t, s + 1, e)

\* t.rfind(c, start, end): the highest position in t[start:end] holding c, or -1
rfind(t, c, start, end) ==
    LET s == SliceBound(start, Len(t))
        e == SliceBound(end, Len(t))
        found == {p \in s..(e - 1) : t[p + 1] = c}
    IN  IF found = {} THEN 0 - 1 ELSE Max(found)

\* Mutant: only the whitespace in front is removed.
Strip_LeftOnly(t) ==
    LET kept == {i \in 1..Len(t) : ~IsWhitespace(t[i])}
    IN  IF kept = {} THEN <<>> ELSE SubSeq(t, Min(kept), Len(t))

\* t.strip()
Strip(t) ==
    LET kept == {i \in 1..Len(t) : ~IsWhitespace(t[i])}
    IN  IF kept = {} THEN <<>> ELSE SubSeq(t, Min(kept), Max(kept))

\* FixedSizeChunking.chunk, lines 58-65: where the window that starts at
\* start ends
FixedSizeChunking_End(t, start, chunk_size) ==
    LET end == start + chunk_size
        last_space == rfind(t, " ", start, end)
    IN  IF end < Len(t) /\ last_space > start THEN last_space ELSE end

\* FixedSizeChunking.chunk, line 83: where the next window starts
FixedSizeChunking_NextStart(end, overlap) ==
    IF overlap > 0 THEN end - overlap ELSE end

\* FixedSizeChunking.chunk, lines 57-83: one pass through the body of the
\* while loop, from the loop variables lp and the list chunks
FixedSizeChunking_Body(t, lp, chunks) ==
    LET end == FixedSizeChunking_End(t, lp.start, lp.chunk_size)
        chunk_text == Strip(Slice(t, lp.start, end))
        chunk_data == [text |-> chunk_text, index |-> lp.index,
                       start_pos |-> lp.start, end_pos |-> end]
    IN  [chunks |-> IF chunk_text # <<>> THEN Append(chunks, chunk_data) ELSE chunks,
         lp |-> [lp EXCEPT !.index = IF chunk_text # <<>> THEN lp.index + 1 ELSE lp.index,
                           !.start = FixedSizeChunking_NextStart(end, lp.overlap)]]

\* The labels of the story sections, each matched in any case, as one
\* character of a text.
TITLE == "Title:"
DESCRIPTION == "Description:"
VOTING == "Voting:"
COMMENTS == "Comments:"
SectionLabels == {TITLE, DESCRIPTION, VOTING, COMMENTS}

\* len() of one character of a text, and of a text
CharLen(c) ==
    CASE c = TITLE -> 6
      [] c = DESCRIPTION -> 12
      [] c = VOTING -> 7
      [] c = COMMENTS -> 9
      [] OTHER -> 1
TextLen(t) ==
    Cardinality({<<i, k>> \in (1..Len(t)) \X (1..12) : k <= CharLen(t[i])})

\* The first position from i on that holds no character of the set S.
RunEnd(t, i, S) ==
    IF \E j \in i..Len(t) : t[j] \notin S
    THEN Min({j \in i..Len(t) : t[j] \notin S})
    ELSE Len(t) + 1

\* sep.join(parts)
RECURSIVE Join(_, _)
Join(parts, sep) ==
    IF parts = <<>> THEN <<>>
    ELSE IF Len(parts) = 1 THEN parts[1]
    ELSE parts[1] \o sep \o Join(Tail(parts), sep)

\* [p.strip() for p in parts if p.strip()]
RECURSIVE StripNonEmpty(_)
StripNonEmpty(parts) ==
    IF parts = <<>> THEN <<>>
    ELSE IF Strip(parts[1]) = <<>> THEN StripNonEmpty(Tail(parts))
    ELSE <<Strip(parts[1])>> \o StripNonEmpty(Tail(parts))

\* re.compile(r'[.!?]+[\s\n]+').split(text), scanning from position i with
\* the current part starting at from: a run of sentence ends followed by
\* whitespace, with all of that whitespace, separates two parts
RECURSIVE sentence_pattern_split(_, _, _)
sentence_pattern_split(t, i, from) ==
    IF i > Len(t) THEN <<SubSeq(t, from, Len(t))>>
    ELSE LET dots_end == RunEnd(t, i, {"."})
             ws_end == RunEnd(t, dots_end, {" ", "\n"})
         IN  IF t[i] = "." /\ ws_end > dots_end
             THEN <<SubSeq(t, from, i - 1)>> \o sentence_pattern_split(t, ws_end, ws_end)
             ELSE sentence_pattern_split(t, i + 1, from)

\* SentenceChunking._split_sentences
_split_sentences(t) == StripNonEmpty(sentence_pattern_split(t, 1, 1))

\* text.split(sep) for a separator of sep_len newlines, from position from
\* on: the parts between the separators, found from left to right
RECURSIVE SplitNewlines(_, _, _)
SplitNewlines(t, sep_len, from) ==
    LET seps == {i \in from..(Len(t) - sep_len + 1) :
                    \A j \in i..(i + sep_len - 1) : t[j] = "\n"}
    IN  IF seps = {} THEN <<SubSeq(t, from, Len(t))>>
        ELSE <<SubSeq(t, from, Min(seps) - 1)>>
                 \o SplitNewlines(t, sep_len, Min(seps) + sep_len)

\* SentenceChunking.chunk lines 118-146 and ParagraphChunking.chunk lines
\* 215-243: the for loop over the sentences (paragraphs) from the k-th on.
\* acc is [chunks, current_chunk, current_length, index]; a chunk is the units
\* joined by sep, and counts them in the field count_field of the code.
RECURSIVE GroupUnits(_, _, _, _, _, _)
GroupUnits(units, k, max_units, max_chunk_size, sep, acc) ==
    IF k > Len(units) THEN acc
    ELSE LET unit == units[k]
             flush == /\ \/ Len(acc.current_chunk) >= max_units
                         \/ acc.current_length + TextLen(unit) > max_chunk_size
                      /\ acc.current_chunk # <<>>
             chunk_text == Strip(Join(acc.current_chunk, sep))
             flushed ==
                 IF ~flush THEN acc
                 ELSE [chunks |-> IF chunk_text # <<>>
                                  THEN Append(acc.chunks,
                                              [text |-> chunk_text, index |-> acc.index,
                                               count |-> Len(acc.current_chunk)])
                                  ELSE acc.chunks,
                       index |-> IF chunk_text # <<>> THEN acc.index + 1 ELSE acc.index,
                       current_chunk |-> <<>>,
                       current_length |-> 0]
         IN  GroupUnits(units, k + 1, max_units, max_chunk_size, sep,
                        [flushed EXCEPT !.current_chunk = Append(@, unit),
                                        !.current_length = @ + TextLen(unit)])

\* SentenceChunking.chunk lines 148-160 and ParagraphChunking.chunk lines
\* 245-257: the last chunk
LastChunk(acc, sep) ==
    LET chunk_text == Strip(Join(acc.current_chunk, sep))
    IN  IF acc.current_chunk # <<>> /\ chunk_text # <<>>
        THEN Append(acc.chunks, [text |-> chunk_text, index |-> acc.index,
                                 count |-> Len(acc.current_chunk)])
        ELSE acc.chunks

\* chunks = [], current_chunk = [], current_length = 0, index = 0
NoUnits == [chunks |-> <<>>, current_chunk |-> <<>>, current_length |-> 0, index |-> 0]

\* SentenceChunking(max_sentences, max_chunk_size).chunk(text)
SentenceChunking_chunk(x, max_sentences, max_chunk_size) ==
    IF NotText(x) THEN <<>>
    ELSE LastChunk(GroupUnits(_split_sentences(x.chars), 1, max_sentences,
                              max_chunk_size, <<" ">>, NoUnits),
                   <<" ">>)

\* ParagraphChunking.chunk lines 198-203: the paragraphs of the text
Paragraphs(t) ==
    LET paragraphs == StripNonEmpty(SplitNewlines(t, 2, 1))
    IN  IF Len(paragraphs) <= 1
        THEN StripNonEmpty(SplitNewlines(t, 1, 1))
        ELSE paragraphs

\* ParagraphChunking.chunk line 205: the text goes to FixedSizeChunking
ParagraphFallsBack(x, max_chunk_size) ==
    /\ ~NotText(x)
    /\ Len(Paragraphs(x.chars)) = 1
    /\ TextLen(x.chars) > max_chunk_size

\* The overlap of the fallback FixedSizeChunking, line 207.
FALLBACK_OVERLAP == 100

\* ParagraphChunking(max_paragraphs, max_chunk_size).chunk(text), when the
\* text does not go to FixedSizeChunking
ParagraphChunking_chunk(x, max_paragraphs, max_chunk_size) ==
    IF NotText(x) THEN <<>>
    ELSE LastChunk(GroupUnits(Paragraphs(x.chars), 1, max_paragraphs,
                              max_chunk_size, <<"\n", "\n">>, NoUnits),
                   <<"\n", "\n">>)

\* Where the lookahead of a section pattern holds: at one of the stop
\* characters, at the end of the text, or ($) before a newline that ends it.
LookaheadAt(t, e, stops) ==
    \/ e > Len(t)
    \/ e = Len(t) /\ t[e] = "\n"
    \/ e <= Len(t) /\ t[e] \in stops

\* re.search(label \s*(.+?)(?=stops|$), text, DOTALL | IGNORECASE).group(1)
\* .strip(), or None without a match. The match starts at the first label that
\* is not the last character; the group starts after the whitespace that
\* follows the label (at the last character, when only whitespace follows)
\* and is the shortest text of one character or more that the lookahead ends.
SearchSection(t, label, stops) ==
    LET starts == {i \in 1..(Len(t) - 1) : t[i] = label}
    IN  IF starts = {} THEN None
        ELSE LET i == Min(starts)
                 ws_end == RunEnd(t, i + 1, {" ", "\n"})
                 g == IF ws_end <= Len(t) THEN ws_end ELSE Len(t)
                 e == Min({j \in (g + 1)..(Len(t) + 1) : LookaheadAt(t, j, stops)})
             IN  Some(Strip(SubSeq(t, g, e - 1)))

\* StoryChunking._parse_story_sections: the sections found, None for a section
\* without a match
_parse_story_sections(t) ==
    [title |-> SearchSection(t, TITLE, {"\n", DESCRIPTION, VOTING, COMMENTS}),
     description |-> SearchSection(t, DESCRIPTION, {VOTING, COMMENTS}),
     voting |-> SearchSection(t, VOTING, {COMMENTS}),
     comments |-> SearchSection(t, COMMENTS, {})]

\* sections.get(name) is truthy
HasSection(sections, name) == sections[name] # None /\ sections[name][1] # <<>>

\* The chunks of one section: texts with the section's label in front and the
\* indexes from index on.
SectionChunks(label, section, texts, index) ==
    [k \in 1..Len(texts) |->
        [text |-> <<label, " ">> \o texts[k], index |-> index + k - 1, section |-> section]]

\* StoryChunking.chunk line 311: max_sentences of the description chunker
DESCRIPTION_MAX_SENTENCES == 5

\* StoryChunking.chunk lines 308-331: the texts of the description chunks
DescriptionTexts(description, chunk_description, max_description_chunk_size) ==
    IF chunk_description /\ TextLen(description) > max_description_chunk_size
    THEN LET desc_chunks == SentenceChunking_chunk(Str(description),
                                DESCRIPTION_MAX_SENTENCES, max_description_chunk_size)
         IN  [k \in 1..Len(desc_chunks) |-> desc_chunks[k].text]
    ELSE <<description>>

\* Mutant: the voting chunk is emitted before the description chunks.
StoryChunking_chunk_VotingFirst(x, chunk_description, max_description_chunk_size) ==
    IF NotText(x) THEN <<>>
    ELSE LET sections == _parse_story_sections(x.chars)
             title == IF HasSection(sections, "title")
                      THEN SectionChunks(TITLE, "title", <<sections.title[1]>>, 0)
                      ELSE <<>>
             voting == IF HasSection(sections, "voting")
                       THEN SectionChunks(VOTING, "voting", <<sections.voting[1]>>,
                                          Len(title))
                       ELSE <<>>
             description ==
                 IF HasSection(sections, "description")
                 THEN SectionChunks(DESCRIPTION, "description",
                          DescriptionTexts(sections.description[1], chunk_description,
                                           max_description_chunk_size),
                          Len(title) + Len(voting))
                 ELSE <<>>
             comments == IF HasSection(sections, "comments")
                         THEN SectionChunks(COMMENTS, "comments", <<sections.comments[1]>>,
                                            Len(title) + Len(voting) + Len(description))
                         ELSE <<>>
         IN  title \o voting \o description \o comments

\* StoryChunking(chunk_description, max_description_chunk_size).chunk(text)
StoryChunking_chunk(x, chunk_description, max_description_chunk_size) ==
    IF NotText(x) THEN <<>>
    ELSE LET sections == _parse_story_sections(x.chars)
             title == IF HasSection(sections, "title")
                      THEN SectionChunks(TITLE, "title", <<sections.title[1]>>, 0)
                      ELSE <<>>
             description ==
                 IF HasSection(sections, "description")
                 THEN SectionChunks(DESCRIPTION, "description",
                          DescriptionTexts(sections.description[1], chunk_description,
                                           max_description_chunk_size),
                          Len(title))
                 ELSE <<>>
             voting == IF HasSection(sections, "voting")
                       THEN SectionChunks(VOTING, "voting", <<sections.voting[1]>>,
                                          Len(title) + Len(description))
                       ELSE <<>>
             comments == IF HasSection(sections, "comments")
                         THEN SectionChunks(COMMENTS, "comments", <<sections.comments[1]>>,
                                            Len(title) + Len(description) + Len(voting))
                         ELSE <<>>
         IN  title \o description \o voting \o comments

\* StoryChunking.__init__: the default max_description_chunk_size
MAX_DESCRIPTION_CHUNK_SIZE == 800

\* chunk_story(story_text)
chunk_story(x) == StoryChunking_chunk(x, TRUE, MAX_DESCRIPTION_CHUNK_SIZE)

----------------------------------------------------------------------------
(* Each specification below runs one part of the program and leaves the    *)
(* variables of the other parts at rest.                                   *)

\* The consensus harness at rest.
IdleConsensus ==
    /\ vote_values = <<>>
    /\ highest_value = None
    /\ cc_result = NotCalled
    /\ alt_result = NotCalled

\* The retrieval harness at rest.
IdleSimilar ==
    /\ query_embedding = <<>>
    /\ candidate_embeddings = <<>>
    /\ top_k = 0
    /\ min_similarity = [num |-> 0, den2 |-> 1]
    /\ similar_result = NotCalled

\* The extraction harness at rest.
IdleExtract ==
    /\ text = <<>>
    /\ points_result = NotCalled

\* The chunking harness at rest.
IdleChunk ==
    /\ ch_strategy = <<>>
    /\ ch_text = <<>>
    /\ ch_pc = "idle"
    /\ ch_loop = <<>>
    /\ ch_chunks = <<>>

\* The AI tables after init_ai_db() on a new database, no pipeline running.
IdleAi ==
    /\ ai_chunks = {}
    /\ ai_embeddings = {}
    /\ next_chunk_id = 1
    /\ next_embedding_id = 1
    /\ runs = <<>>
    /\ estimation = NotCalled

\* The application before any request, without the AI assistant.
IdleApp ==
    /\ ai_enabled = FALSE
    /\ users = <<>>
    /\ stories = <<>>
    /\ next_story_id = 1
    /\ votes = {}
    /\ clock = 0
    /\ ai_tasks = <<>>
    /\ requests = <<>>

----------------------------------------------------------------------------
(* Extraction harness *)

MaxTextLen == 4

\* The characters tried: the digits needed for 1, 4, 9, 13, 21 and 100.
Characters == {LABEL, " ", "x", "0", "1", "2", "3", "4", "9"}

InitExtract ==
    /\ IdleApp
    /\ IdleConsensus
    /\ IdleSimilar
    /\ IdleChunk
    /\ IdleAi
    /\ text \in SeqsUpTo(Characters, MaxTextLen)
    /\ points_result = NotCalled

CallExtractStoryPoints ==
    /\ points_result = NotCalled
    /\ points_result' = Returned(extract_story_points(text))
    /\ UNCHANGED <<text, varsConsensus, varsSimilar, varsApp, varsChunk, varsAi>>

NextExtract == CallExtractStoryPoints

SpecExtract == InitExtract /\ [][NextExtract]_vars

----------------------------------------------------------------------------
(* Consensus engine harness: the inputs are drawn in Init, the actions call *)
(* the functions.                                                           *)

\* The vote lists tried: up to MaxVotes votes over the first NumCards cards
\* of the scale plus one value that is not on the scale.
MaxVotes == 5
NumCards == 4
OffScale == {4}
VoteCards == {FIBONACCI[i] : i \in 1..NumCards} \cup OffScale

InitConsensus ==
    /\ IdleApp
    /\ IdleSimilar
    /\ IdleExtract
    /\ IdleChunk
    /\ IdleAi
    /\ vote_values \in SeqsUpTo(VoteCards, MaxVotes)
    /\ highest_value = None
    /\ cc_result = NotCalled
    /\ alt_result = NotCalled

CallCheckConsensus ==
    /\ cc_result = NotCalled
    /\ cc_result' = Returned(check_consensus(vote_values))
    /\ UNCHANGED <<vote_values, highest_value, alt_result, varsSimilar, varsExtract, varsApp, varsChunk, varsAi>>

\* The call of check_consensus line 96: highest_value is max(vote_values); on
\* an empty list, which has no maximum, any card is passed.
HighestArguments(vs) ==
    IF vs = <<>> THEN VoteCards ELSE {Max(Range(vs))}

CallCalculateAlternative ==
    /\ alt_result = NotCalled
    /\ \E h \in HighestArguments(vote_values) :
          /\ highest_value' = Some(h)
          /\ alt_result' = Returned(calculate_alternative_value(vote_values, h))
    /\ UNCHANGED <<vote_values, cc_result, varsSimilar, varsExtract, varsApp, varsChunk, varsAi>>

NextConsensus == CallCheckConsensus \/ CallCalculateAlternative

SpecConsensus == InitConsensus /\ [][NextConsensus]_vars

----------------------------------------------------------------------------
(* ai/embeddings.py: EmbeddingGenerator.cosine_similarity and               *)
(* find_similar_chunks.                                                     *)
(*                                                                          *)
(* Embeddings are tuples of integers. A similarity dot / (|a| * |b|) is kept *)
(* exactly, as the pair num = dot, den2 = |a|^2 * |b|^2, and similarities   *)
(* are compared as real numbers.                                            *)

RECURSIVE SumSeq(_)
SumSeq(s) == IF s = <<>> THEN 0 ELSE s[1] + SumSeq(Tail(s))

\* sum(a * b for a, b in zip(embedding1, embedding2)) for equal lengths
DotProduct(a, b) == SumSeq([i \in 1..Len(a) |-> a[i] * b[i]])

\* x * |x|: the square that keeps the sign, for comparing num / sqrt(den2).
SignedSquare(x) == IF x >= 0 THEN x * x ELSE 0 - (x * x)

\* similarity x >= similarity y, as real numbers
SimGE(x, y) == SignedSquare(x.num) * y.den2 >= SignedSquare(y.num) * x.den2

SimGT(x, y) == ~SimGE(y, x)

Raised == [raised |-> TRUE, value |-> <<>>]
Value(v) == [raised |-> FALSE, value |-> v]

\* Mutant: vectors of different lengths count as not similar at all.
cosine_similarity_NoLengthCheck(embedding1, embedding2) ==
    LET dot_product == DotProduct(embedding1, embedding2)
        magnitude1sq == DotProduct(embedding1, embedding1)
        magnitude2sq == DotProduct(embedding2, embedding2)
    IN  IF Len(embedding1) # Len(embedding2) \/ magnitude1sq = 0 \/ magnitude2sq = 0
        THEN Value([num |-> 0, den2 |-> 1])
        ELSE Value([num |-> dot_product, den2 |-> magnitude1sq * magnitude2sq])

cosine_similarity(embedding1, embedding2) ==
    IF Len(embedding1) # Len(embedding2) THEN Raised
    ELSE LET dot_product == DotProduct(embedding1, embedding2)
             magnitude1sq == DotProduct(embedding1, embedding1)
             magnitude2sq == DotProduct(embedding2, embedding2)
         IN  IF magnitude1sq = 0 \/ magnitude2sq = 0
             THEN Value([num |-> 0, den2 |-> 1])
             ELSE Value([num |-> dot_product, den2 |-> magnitude1sq * magnitude2sq])

\* The loop of lines 458-462: the <<chunk_id, similarity>> pairs that reach
\* min_similarity, in candidate order; raises at a candidate whose dimension
\* differs from the query's.
RECURSIVE CollectSimilarities(_, _, _)
CollectSimilarities(query, candidates, minsim) ==
    IF candidates = <<>> THEN Value(<<>>)
    ELSE LET front == CollectSimilarities(query, SubSeq(candidates, 1, Len(candidates) - 1), minsim)
             last == candidates[Len(candidates)]
             similarity == cosine_similarity(query, last[2])
         IN  IF front.raised \/ similarity.raised THEN Raised
             ELSE IF SimGE(similarity.value, minsim)
             THEN Value(Append(front.value, <<last[1], similarity.value>>))
             ELSE front

\* Mutant: equal similarities come out in reverse input order.
InsertDesc_Unstable(sorted, item) ==
    LET before == {i \in 1..Len(sorted) : SimGT(sorted[i][2], item[2])}
        n == Cardinality(before)
    IN  SubSeq(sorted, 1, n) \o <<item>> \o SubSeq(sorted, n + 1, Len(sorted))

\* One step of the stable descending sort: item goes behind every element
\* whose similarity is greater or equal.
InsertDesc(sorted, item) ==
    LET before == {i \in 1..Len(sorted) : SimGE(sorted[i][2], item[2])}
        n == Cardinality(before)
    IN  SubSeq(sorted, 1, n) \o <<item>> \o SubSeq(sorted, n + 1, Len(sorted))

\* similarities.sort(key=lambda x: x[1], reverse=True)
RECURSIVE SortBySimilarityDesc(_)
SortBySimilarityDesc(items) ==
    IF items = <<>> THEN <<>>
    ELSE InsertDesc(SortBySimilarityDesc(SubSeq(items, 1, Len(items) - 1)), items[Len(items)])

\* Mutant: the result is not cut to top_k.
Truncate_Off(items, k) == items

\* similarities[:top_k] for top_k >= 0
Truncate(items, k) == SubSeq(items, 1, IF k < Len(items) THEN k ELSE Len(items))

\* Mutant: min_similarity is not applied.
find_similar_chunks_NoThreshold(query, candidates, k, minsim) ==
    LET similarities == CollectSimilarities(query, candidates, [num |-> 0 - 1, den2 |-> 1])
    IN  IF similarities.raised THEN Raised
        ELSE Value(Truncate(SortBySimilarityDesc(similarities.value), k))

find_similar_chunks(query, candidates, k, minsim) ==
    LET similarities == CollectSimilarities(query, candidates, minsim)
    IN  IF similarities.raised THEN Raised
        ELSE Value(Truncate(SortBySimilarityDesc(similarities.value), k))

----------------------------------------------------------------------------
(* Retrieval harness *)

MaxCandidates == 3
MaxTopK == 3

\* The embeddings tried: vectors of the same direction (tied similarities),
\* oblique, orthogonal and opposite ones, the zero vector and a vector of
\* another dimension. All have integer magnitudes, so that the floating
\* point similarities of the code are the exact ones.
Embeddings == {<<1, 0>>, <<2, 0>>, <<3, 4>>, <<0, 1>>, <<0 - 1, 0>>, <<0, 0>>, <<1>>}
Queries == {<<1, 0>>, <<3, 4>>, <<0, 0>>}

\* min_similarity: -1, the default 0.5, and 1
Thresholds == {[num |-> 0 - 1, den2 |-> 1], [num |-> 1, den2 |-> 4], [num |-> 1, den2 |-> 1]}

\* Candidate i carries chunk_id i.
WithChunkIds(embs) == [i \in 1..Len(embs) |-> <<i, embs[i]>>]

InitSimilar ==
    /\ IdleApp
    /\ IdleConsensus
    /\ IdleExtract
    /\ IdleChunk
    /\ IdleAi
    /\ query_embedding \in Queries
    /\ \E embs \in SeqsUpTo(Embeddings, MaxCandidates) :
          candidate_embeddings = WithChunkIds(embs)
    /\ top_k \in 0..MaxTopK
    /\ min_similarity \in Thresholds
    /\ similar_result = NotCalled

CallFindSimilarChunks ==
    /\ similar_result = NotCalled
    /\ similar_result' = Returned(find_similar_chunks(query_embedding, candidate_embeddings,
                                                      top_k, min_similarity))
    /\ UNCHANGED <<query_embedding, candidate_embeddings, top_k, min_similarity>>
    /\ UNCHANGED <<varsConsensus, varsExtract, varsApp, varsChunk, varsAi>>

NextSimilar == CallFindSimilarChunks

SpecSimilar == InitSimilar /\ [][NextSimilar]_vars

----------------------------------------------------------------------------
(* app.py: the request handlers and the AI background task. A handler runs  *)
(* as one step; the background task runs as one step per database access,   *)
(* with the requests of the users in between. A request that the handler    *)
(* turns away changes nothing and is no step.                               *)

MaxStories == 1
MaxRound == 2
MaxClock == 3
MaxTasks == 1

\* The people at the table.
Humans == {"alice", "bob"}

\* The values the /vote form sends: two cards and a number that is no card.
FormPoints == {1, 3, 4}

\* What the reasoning model answers: a labelled value between two scale
\* steps, a bare number at the start without the label, and neither.
Responses == {<<LABEL, " ", "4">>, <<"4", "x">>, <<"x">>}

\* State after init_db() and initialize_ai_user(): empty tables; the AI user
\* exists when the AI assistant is available.
Init ==
    /\ IdleConsensus
    /\ IdleSimilar
    /\ IdleExtract
    /\ IdleChunk
    /\ IdleAi
    /\ ai_enabled \in BOOLEAN
    /\ users = [n \in (IF ai_enabled THEN {AI_USER_NAME} ELSE {}) |-> FALSE]
    /\ stories = <<>>
    /\ next_story_id = 1
    /\ votes = {}
    /\ clock = 0
    /\ ai_tasks = <<>>
    /\ requests = <<>>

\* POST /set_name
SetName(u) ==
    /\ ~UserExists(u)
    /\ users' = create_user(users, u)
    /\ UNCHANGED <<requests, ai_enabled, stories, next_story_id, votes, clock, ai_tasks>>

\* POST /toggle_spectator
ToggleSpectator(u) ==
    /\ UserExists(u)
    /\ users' = [users EXCEPT ![u] = ~users[u]]
    /\ UNCHANGED <<requests, ai_enabled, stories, next_story_id, votes, clock, ai_tasks>>

\* POST /create_story
CreateStory(u, start_immediately, auto_start) ==
    /\ UserExists(u)
    /\ next_story_id <= MaxStories
    /\ LET story_id == next_story_id
           status == IF start_immediately /\ get_active_story = None
                     THEN "voting" ELSE "pending"
       IN  stories' = [id \in DOMAIN stories \cup {story_id} |->
                          IF id = story_id
                          THEN [status |-> status, round |-> 1, creator_name |-> u,
                                auto_start |-> auto_start]
                          ELSE stories[id]]
    /\ next_story_id' = next_story_id + 1
    /\ UNCHANGED <<requests, ai_enabled, users, votes, clock, ai_tasks>>

\* trigger_ai_estimation: starts a background task when the AI is enabled;
\* the task begins with the event ai_estimating. triggered_round only
\* observes the task: the round of the story when the task was started.
trigger_ai_estimation(story_id) ==
    IF ai_enabled
    THEN Append(ai_tasks, [story_id |-> story_id, pc |-> "estimating",
                           points |-> None, round |-> None,
                           triggered_round |-> IF StoryExists(story_id)
                                               THEN Some(stories[story_id].round)
                                               ELSE None,
                           model_calls |-> 0, evidence |-> 0,
                           events |-> <<"ai_estimating">>])
    ELSE ai_tasks

\* POST /start_voting/<story_id>
StartVoting(u, story_id) ==
    /\ UserExists(u)
    /\ StoryExists(story_id)
    /\ stories[story_id].creator_name = u
    /\ get_active_story = None
    /\ ai_enabled => Len(ai_tasks) < MaxTasks
    /\ stories' = update_story_status(stories, story_id, "voting")
    /\ ai_tasks' = trigger_ai_estimation(story_id)
    /\ UNCHANGED <<requests, ai_enabled, users, next_story_id, votes, clock>>

\* POST /vote
Vote(u, points) ==
    /\ UserExists(u)
    /\ get_active_story # None
    /\ ~users[u]
    /\ LET active_story == get_active_story[1]
           round_num == stories[active_story].round
       IN  IF points \in Range(FIBONACCI)
           THEN /\ clock < MaxClock
                /\ votes' = cast_vote(votes, active_story, u, points, round_num, clock)
                /\ clock' = clock + 1
                /\ stories' =
                      IF check_all_active_users_voted(votes', users, active_story, round_num)
                      THEN update_story_status(stories, active_story, "revealed")
                      ELSE stories
           ELSE UNCHANGED <<votes, clock, stories>>
    /\ UNCHANGED <<requests, ai_enabled, users, next_story_id, ai_tasks>>

\* POST /reveal
Reveal(u) ==
    /\ UserExists(u)
    /\ get_active_story # None
    /\ u = stories[get_active_story[1]].creator_name
    /\ stories' = update_story_status(stories, get_active_story[1], "revealed")
    /\ UNCHANGED <<requests, ai_enabled, users, next_story_id, votes, clock, ai_tasks>>

\* POST /complete_story
CompleteStory(u) ==
    /\ UserExists(u)
    /\ get_active_story # None
    /\ stories[get_active_story[1]].creator_name = u
    /\ LET completed == update_story_status(stories, get_active_story[1], "completed")
           next_story == get_next_auto_start_story(completed)
       IN  stories' = IF next_story # None
                      THEN update_story_status(completed, next_story[1], "voting")
                      ELSE completed
    /\ UNCHANGED <<requests, ai_enabled, users, next_story_id, votes, clock, ai_tasks>>

\* POST /new_round
NewRound(u) ==
    /\ UserExists(u)
    /\ get_active_story # None
    /\ stories[get_active_story[1]].creator_name = u
    /\ stories[get_active_story[1]].round < MaxRound
    /\ LET active_story == get_active_story[1]
           new_round_num == stories[active_story].round + 1
       IN  stories' = update_story_status(
                          update_story_round(stories, active_story, new_round_num),
                          active_story, "voting")
    /\ UNCHANGED <<requests, ai_enabled, users, next_story_id, votes, clock, ai_tasks>>

\* POST /withdraw_story/<story_id>, with database.withdraw_story
WithdrawStory(u, story_id) ==
    /\ UserExists(u)
    /\ get_active_story = Some(story_id)
    /\ stories[story_id].creator_name = u
    /\ votes' = {v \in votes :
                    ~(v.story_id = story_id /\ v.round = stories[story_id].round)}
    /\ stories' = update_story_status(stories, story_id, "pending")
    /\ UNCHANGED <<requests, ai_enabled, users, next_story_id, clock, ai_tasks>>

\* POST /delete_story/<story_id>, with database.delete_story
DeleteStory(u, story_id) ==
    /\ UserExists(u)
    /\ StoryExists(story_id)
    /\ stories[story_id].creator_name = u
    /\ stories[story_id].status = "pending"
    /\ votes' = {v \in votes : v.story_id # story_id}
    /\ stories' = [id \in DOMAIN stories \ {story_id} |-> stories[id]]
    /\ UNCHANGED <<requests, ai_enabled, users, next_story_id, clock, ai_tasks>>

\* What one call of the reasoning model gives: client.messages.create
\* raises (transport, authentication, timeout), or a response text.
ModelReplies == {Raised} \cup {Value(response) : response \in Responses}

\* How many stories evidence gathering returns: none or one.
SimilarCounts == {0, 1}

\* Mutant: a failed model call is repeated once.
EstimationOutcome_Retry(available, story_found, similar_count, reply) ==
    IF ~available \/ ~story_found \/ similar_count = 0
    THEN [points |-> None, model_calls |-> 0, evidence |-> 0]
    ELSE IF reply.raised
    THEN [points |-> None, model_calls |-> 2, evidence |-> similar_count]
    ELSE [points |-> Some(extract_story_points(reply.value)), model_calls |-> 1,
          evidence |-> similar_count]

\* estimate_story_with_ai, by its stages: availability, the story, evidence
\* gathering (similar_count stories found), one call of the model. points is
\* None where the function returns None; model_calls counts the calls of
\* client.messages.create, evidence the stories handed to the model.
EstimationOutcome(available, story_found, similar_count, reply) ==
    IF ~available \/ ~story_found \/ similar_count = 0
    THEN [points |-> None, model_calls |-> 0, evidence |-> 0]
    ELSE IF reply.raised
    THEN [points |-> None, model_calls |-> 1, evidence |-> similar_count]
    ELSE [points |-> Some(extract_story_points(reply.value)), model_calls |-> 1,
          evidence |-> similar_count]

\* _estimate_in_background, lines 263-279: estimate_story_with_ai returns a
\* result; the event ai_estimated is added
AiEstimated(t) ==
    /\ t \in 1..Len(ai_tasks)
    /\ ai_tasks[t].pc = "estimating"
    /\ \E available \in BOOLEAN, similar_count \in SimilarCounts, reply \in ModelReplies :
          LET outcome == EstimationOutcome(available, StoryExists(ai_tasks[t].story_id),
                                           similar_count, reply)
          IN  /\ outcome.points # None
              /\ ai_tasks' = [ai_tasks EXCEPT
                     ![t].pc = "estimated",
                     ![t].points = outcome.points,
                     ![t].model_calls = outcome.model_calls,
                     ![t].evidence = outcome.evidence,
                     ![t].events = Append(@, "ai_estimated")]
    /\ UNCHANGED <<requests, ai_enabled, users, stories, next_story_id, votes, clock>>

\* _estimate_in_background, lines 265-271: estimate_story_with_ai returns
\* None; the event ai_error is added and the task ends
AiFailed(t) ==
    /\ t \in 1..Len(ai_tasks)
    /\ ai_tasks[t].pc = "estimating"
    /\ \E available \in BOOLEAN, similar_count \in SimilarCounts, reply \in ModelReplies :
          LET outcome == EstimationOutcome(available, StoryExists(ai_tasks[t].story_id),
                                           similar_count, reply)
          IN  /\ outcome.points = None
              /\ ai_tasks' = [ai_tasks EXCEPT
                     ![t].pc = "failed",
                     ![t].model_calls = outcome.model_calls,
                     ![t].evidence = outcome.evidence,
                     ![t].events = Append(@, "ai_error")]
    /\ UNCHANGED <<requests, ai_enabled, users, stories, next_story_id, votes, clock>>

\* _estimate_in_background, lines 281-287: the story is read; the task ends
\* unless the story is in status voting
AiReadStory(t) ==
    /\ t \in 1..Len(ai_tasks)
    /\ ai_tasks[t].pc = "estimated"
    /\ LET story_id == ai_tasks[t].story_id
       IN  ai_tasks' =
               IF StoryExists(story_id) /\ stories[story_id].status = "voting"
               THEN [ai_tasks EXCEPT ![t].pc = "read",
                                     ![t].round = Some(stories[story_id].round)]
               ELSE [ai_tasks EXCEPT ![t].pc = "skipped"]
    /\ UNCHANGED <<requests, ai_enabled, users, stories, next_story_id, votes, clock>>

\* _estimate_in_background, lines 289-303: the AI user is created if missing
\* and the vote is cast
AiCastVote(t) ==
    /\ t \in 1..Len(ai_tasks)
    /\ ai_tasks[t].pc = "read"
    /\ clock < MaxClock
    /\ users' = create_user(users, AI_USER_NAME)
    /\ votes' = cast_vote(votes, ai_tasks[t].story_id, AI_USER_NAME,
                          ai_tasks[t].points[1], ai_tasks[t].round[1], clock)
    /\ clock' = clock + 1
    /\ ai_tasks' = [ai_tasks EXCEPT ![t].pc = "voted"]
    /\ UNCHANGED <<requests, ai_enabled, stories, next_story_id>>

\* _estimate_in_background, lines 311-343: save_ai_estimation and the events
AiSaveEstimation(t) ==
    /\ t \in 1..Len(ai_tasks)
    /\ ai_tasks[t].pc = "voted"
    /\ ai_tasks' = [ai_tasks EXCEPT ![t].pc = "done",
                                 ![t].events = Append(@, "ai_vote")]
    /\ UNCHANGED <<requests, ai_enabled, users, stories, next_story_id, votes, clock>>

Next ==
    \/ \E u \in Humans : SetName(u) /\ UNCHANGED <<varsConsensus, varsSimilar, varsExtract, varsChunk, varsAi>>
    \/ \E u \in Humans : ToggleSpectator(u) /\ UNCHANGED <<varsConsensus, varsSimilar, varsExtract, varsChunk, varsAi>>
    \/ \E u \in Humans, start_immediately, auto_start \in BOOLEAN :
          CreateStory(u, start_immediately, auto_start)
              /\ UNCHANGED <<varsConsensus, varsSimilar, varsExtract, varsChunk, varsAi>>
    \/ \E u \in Humans, story_id \in 1..MaxStories :
          StartVoting(u, story_id) /\ UNCHANGED <<varsConsensus, varsSimilar, varsExtract, varsChunk, varsAi>>
    \/ \E u \in Humans, points \in FormPoints :
          Vote(u, points) /\ UNCHANGED <<varsConsensus, varsSimilar, varsExtract, varsChunk, varsAi>>
    \/ \E u \in Humans : Reveal(u) /\ UNCHANGED <<varsConsensus, varsSimilar, varsExtract, varsChunk, varsAi>>
    \/ \E u \in Humans : CompleteStory(u) /\ UNCHANGED <<varsConsensus, varsSimilar, varsExtract, varsChunk, varsAi>>
    \/ \E u \in Humans : NewRound(u) /\ UNCHANGED <<varsConsensus, varsSimilar, varsExtract, varsChunk, varsAi>>
    \/ \E u \in Humans, story_id \in 1..MaxStories :
          WithdrawStory(u, story_id) /\ UNCHANGED <<varsConsensus, varsSimilar, varsExtract, varsChunk, varsAi>>
    \/ \E u \in Humans, story_id \in 1..MaxStories :
          DeleteStory(u, story_id) /\ UNCHANGED <<varsConsensus, varsSimilar, varsExtract, varsChunk, varsAi>>
    \/ \E t \in 1..MaxTasks : AiEstimated(t) /\ UNCHANGED <<varsConsensus, varsSimilar, varsExtract, varsChunk, varsAi>>
    \/ \E t \in 1..MaxTasks : AiFailed(t) /\ UNCHANGED <<varsConsensus, varsSimilar, varsExtract, varsChunk, varsAi>>
    \/ \E t \in 1..MaxTasks : AiReadStory(t) /\ UNCHANGED <<varsConsensus, varsSimilar, varsExtract, varsChunk, varsAi>>
    \/ \E t \in 1..MaxTasks : AiCastVote(t) /\ UNCHANGED <<varsConsensus, varsSimilar, varsExtract, varsChunk, varsAi>>
    \/ \E t \in 1..MaxTasks :
          AiSaveEstimation(t) /\ UNCHANGED <<varsConsensus, varsSimilar, varsExtract, varsChunk, varsAi>>

Spec == Init /\ [][Next]_vars

----------------------------------------------------------------------------
(* Chunking harness: the strategy and the text are drawn in Init, the       *)
(* actions call chunk(). The while loop of FixedSizeChunking runs one pass    *)
(* per step.                                                                *)

MaxFixedTextLen == 7
MaxPlainTextLen == 5
MaxStoryTextLen == 4
MaxChunkSize == 3
MaxChunks == 8
MaxBacktrack == 250

\* "hello world foo bar"
HelloWorld ==
    <<"h", "e", "l", "l", "o", " ", "w", "o", "r", "l", "d", " ",
      "f", "o", "o", " ", "b", "a", "r">>

\* "Title: Foo\nDescription: Bar", with one letter for Foo and for Bar
TitleAndDescription == <<TITLE, " ", "a", "\n", DESCRIPTION, " ", "a">>

\* A word of n letters, and one with a space after the first k letters.
LongWord(n) == [i \in 1..n |-> "a"]
LongWords(k, n) == [i \in 1..n |-> IF i = k + 1 THEN " " ELSE "a"]

FixedStrategies ==
    {[type |-> "fixed", chunk_size |-> c, overlap |-> o] :
        c \in 1..MaxChunkSize, o \in 0..(MaxChunkSize - 1)}
    \cup {[type |-> "fixed", chunk_size |-> 6, overlap |-> 2],
          [type |-> "fixed", chunk_size |-> 10, overlap |-> 2]}

SentenceStrategies ==
    {[type |-> "sentence", max_sentences |-> 1, max_chunk_size |-> 2],
     [type |-> "sentence", max_sentences |-> 2, max_chunk_size |-> 3],
     [type |-> "sentence", max_sentences |-> 5, max_chunk_size |-> 1000]}

ParagraphStrategies ==
    {[type |-> "paragraph", max_paragraphs |-> 1, max_chunk_size |-> 2],
     [type |-> "paragraph", max_paragraphs |-> 2, max_chunk_size |-> 3],
     [type |-> "paragraph", max_paragraphs |-> 3, max_chunk_size |-> 1500]}

StoryStrategies ==
    {[type |-> "story", chunk_description |-> TRUE,
      max_description_chunk_size |-> MAX_DESCRIPTION_CHUNK_SIZE],
     [type |-> "story", chunk_description |-> TRUE, max_description_chunk_size |-> 1],
     [type |-> "story", chunk_description |-> FALSE, max_description_chunk_size |-> 1]}

\* The texts tried with the strategies of one type.
TextsFor(type) ==
    {PyNone} \cup
    CASE type = "fixed" ->
           {Str(t) : t \in SeqsUpTo({"a", " "}, MaxFixedTextLen) \cup {HelloWorld}}
      [] type = "sentence" ->
           {Str(t) : t \in SeqsUpTo({"a", " ", "\n", "."}, MaxPlainTextLen)}
      [] type = "paragraph" ->
           {Str(t) : t \in SeqsUpTo({"a", " ", "\n"}, MaxPlainTextLen)
                            \cup {LongWord(1501), LongWords(700, 1601)}}
      [] type = "story" ->
           {Str(t) : t \in SeqsUpTo({"a", " ", "\n", "."} \cup SectionLabels,
                                    MaxStoryTextLen)
                            \cup {TitleAndDescription}}

InitChunk ==
    /\ IdleApp
    /\ IdleConsensus
    /\ IdleSimilar
    /\ IdleExtract
    /\ IdleAi
    /\ ch_strategy \in FixedStrategies \cup SentenceStrategies
                          \cup ParagraphStrategies \cup StoryStrategies
    /\ ch_text \in TextsFor(ch_strategy.type)
    /\ ch_pc = "called"
    /\ ch_loop = <<>>
    /\ ch_chunks = <<>>

\* FixedSizeChunking.chunk lines 49-55: up to the while loop
CallFixedSizeChunking ==
    /\ ch_pc = "called"
    /\ ch_strategy.type = "fixed"
    /\ IF NotText(ch_text)
       THEN ch_pc' = "returned" /\ ch_loop' = ch_loop
       ELSE /\ ch_pc' = "loop"
            /\ ch_loop' = [chunk_size |-> ch_strategy.chunk_size,
                           overlap |-> ch_strategy.overlap, start |-> 0, index |-> 0]
    /\ ch_chunks' = <<>>
    /\ UNCHANGED <<ch_strategy, ch_text>>

\* FixedSizeChunking.chunk lines 57-83: one pass of the while loop. The list
\* chunks holds MaxChunks chunks at most, and start is followed down to
\* -MaxBacktrack.
FixedSizeChunkingLoop ==
    /\ ch_pc = "loop"
    /\ ch_loop.start < Len(ch_text.chars)
    /\ ch_loop.start >= 0 - MaxBacktrack
    /\ LET after == FixedSizeChunking_Body(ch_text.chars, ch_loop, ch_chunks)
       IN  /\ Len(after.chunks) <= MaxChunks
           /\ ch_chunks' = after.chunks
           /\ ch_loop' = after.lp
    /\ UNCHANGED <<ch_strategy, ch_text, ch_pc>>

\* FixedSizeChunking.chunk line 85: the while loop has ended
FixedSizeChunkingReturn ==
    /\ ch_pc = "loop"
    /\ ch_loop.start >= Len(ch_text.chars)
    /\ ch_pc' = "returned"
    /\ UNCHANGED <<ch_strategy, ch_text, ch_loop, ch_chunks>>

\* SentenceChunking.chunk
CallSentenceChunking ==
    /\ ch_pc = "called"
    /\ ch_strategy.type = "sentence"
    /\ ch_chunks' = SentenceChunking_chunk(ch_text, ch_strategy.max_sentences,
                                           ch_strategy.max_chunk_size)
    /\ ch_pc' = "returned"
    /\ UNCHANGED <<ch_strategy, ch_text, ch_loop>>

\* ParagraphChunking.chunk; lines 205-208 hand the text to the while loop of
\* a FixedSizeChunking(max_chunk_size, 100)
CallParagraphChunking ==
    /\ ch_pc = "called"
    /\ ch_strategy.type = "paragraph"
    /\ IF ParagraphFallsBack(ch_text, ch_strategy.max_chunk_size)
       THEN /\ ch_pc' = "loop"
            /\ ch_loop' = [chunk_size |-> ch_strategy.max_chunk_size,
                           overlap |-> FALLBACK_OVERLAP, start |-> 0, index |-> 0]
            /\ ch_chunks' = <<>>
       ELSE /\ ch_pc' = "returned"
            /\ ch_loop' = ch_loop
            /\ ch_chunks' = ParagraphChunking_chunk(ch_text, ch_strategy.max_paragraphs,
                                                    ch_strategy.max_chunk_size)
    /\ UNCHANGED <<ch_strategy, ch_text>>

\* StoryChunking.chunk
CallStoryChunking ==
    /\ ch_pc = "called"
    /\ ch_strategy.type = "story"
    /\ ch_chunks' = StoryChunking_chunk(ch_text, ch_strategy.chunk_description,
                                        ch_strategy.max_description_chunk_size)
    /\ ch_pc' = "returned"
    /\ UNCHANGED <<ch_strategy, ch_text, ch_loop>>

NextChunk ==
    /\ \/ CallFixedSizeChunking
       \/ FixedSizeChunkingLoop
       \/ FixedSizeChunkingReturn
       \/ CallSentenceChunking
       \/ CallParagraphChunking
       \/ CallStoryChunking
    /\ UNCHANGED <<varsConsensus, varsSimilar, varsExtract, varsApp, varsAi>>

SpecChunk == InitChunk /\ [][NextChunk]_vars

----------------------------------------------------------------------------
(* ai/database_ai.py: the ai_chunks and ai_embeddings tables.               *)
(*                                                                          *)
(* ai_chunks has no UNIQUE constraint besides its AUTOINCREMENT id.         *)
(* ai_embeddings declares FOREIGN KEY (chunk_id) REFERENCES ai_chunks(id)   *)
(* ON DELETE CASCADE, but get_ai_db opens a plain sqlite3 connection and    *)
(* nothing executes PRAGMA foreign_keys, so SQLite does not enforce it.     *)

STORY == "story"

\* SELECT * FROM ai_chunks WHERE source_type = ? AND source_id = ?
ChunkRows(source_type, source_id) ==
    {c \in ai_chunks : c.source_type = source_type /\ c.source_id = source_id}

\* ORDER BY chunk_index; rows of equal index in id order
RECURSIVE OrderByChunkIndex(_)
OrderByChunkIndex(rows) ==
    IF rows = {} THEN <<>>
    ELSE LET first == CHOOSE c \in rows : \A d \in rows :
                          \/ c.chunk_index < d.chunk_index
                          \/ c.chunk_index = d.chunk_index /\ c.id <= d.id
         IN  <<first>> \o OrderByChunkIndex(rows \ {first})

get_chunks_by_source(source_type, source_id) ==
    OrderByChunkIndex(ChunkRows(source_type, source_id))

\* The rows SQL may put first under ORDER BY chunk_index: the order of rows
\* with equal chunk_index is unspecified.
FirstChunks(source_type, source_id) ==
    {c \in ChunkRows(source_type, source_id) :
        \A d \in ChunkRows(source_type, source_id) : c.chunk_index <= d.chunk_index}

\* INSERT INTO ai_chunks; the new id is next_chunk_id
create_chunk(source_type, source_id, chunk_text, chunk_index, chunk_strategy) ==
    ai_chunks \cup {[id |-> next_chunk_id, source_type |-> source_type,
                     source_id |-> source_id, chunk_text |-> chunk_text,
                     chunk_index |-> chunk_index, chunk_strategy |-> chunk_strategy]}

\* DELETE FROM ai_chunks WHERE source_type = ? AND source_id = ?
delete_chunks_by_source(source_type, source_id) ==
    ai_chunks \ ChunkRows(source_type, source_id)

\* INSERT INTO ai_embeddings; the new id is next_embedding_id. The chunk_id
\* is not checked against ai_chunks.
create_embedding(chunk_id, embedding_model, embedding_vector) ==
    ai_embeddings \cup {[id |-> next_embedding_id, chunk_id |-> chunk_id,
                         embedding_model |-> embedding_model,
                         embedding_vector |-> embedding_vector]}

\* get_embedding_by_chunk(chunk_id, model): the rows that ORDER BY created_at
\* DESC LIMIT 1 may return. created_at is CURRENT_TIMESTAMP, which has a
\* resolution of one second, so rows of one chunk can tie. model is None or
\* Some(name); only Some(name) filters by embedding_model.
get_embedding_by_chunk(chunk_id, model) ==
    {e \in ai_embeddings :
        /\ e.chunk_id = chunk_id
        /\ model # None => e.embedding_model = model[1]}

----------------------------------------------------------------------------
(* ai/embeddings.py: providers and EmbeddingGenerator.generate_and_store.   *)

MOCK == "mock"
SENTENCE_TRANSFORMERS == "sentence_transformers"

\* provider.get_model_name() for the default model of each provider. Both
\* defaults produce vectors of the same dimension (384).
get_model_name(provider_type) ==
    IF provider_type = MOCK THEN "mock_embedding_384"
    ELSE "sentence_transformers_all-MiniLM-L6-v2"

\* Mutant: a chunk that failed gets no entry in the result list.
AppendResult_DropFailed(results, embedding_id) ==
    IF embedding_id = None THEN results ELSE Append(results, embedding_id)

\* results.append(embedding_id)
AppendResult(results, embedding_id) == Append(results, embedding_id)

\* generate_and_store: generated is Raised or Value(vector), the outcome of
\* provider.generate_embedding; stored tells whether create_embedding went
\* through. Every exception is caught and gives None.
generate_and_store(chunk_id, model_name, db_module, generated, stored) ==
    IF ~generated.raised /\ db_module /\ stored
    THEN [embeddings |-> create_embedding(chunk_id, model_name, generated.value),
          embedding_id |-> Some(next_embedding_id)]
    ELSE [embeddings |-> ai_embeddings, embedding_id |-> None]

----------------------------------------------------------------------------
(* ai/estimation.py: find_similar_stories_with_points and                   *)
(* estimate_story_with_ai.                                                  *)

JIRA_ARCHIVE == "jira_archive"
MANUAL == "manual"

\* get_all_stories: ORDER BY created_at DESC, ids grow with created_at
RECURSIVE NewestFirst(_)
NewestFirst(ids) ==
    IF ids = {} THEN <<>>
    ELSE LET newest == CHOOSE i \in ids : \A j \in ids : j <= i
         IN  <<newest>> \o NewestFirst(ids \ {newest})

get_all_stories == NewestFirst(DOMAIN stories)

\* s.get('source') == 'jira_archive' and s.get('final_points')
IsArchiveWithPoints(story_id) ==
    /\ stories[story_id].source = JIRA_ARCHIVE
    /\ stories[story_id].final_points # None
    /\ stories[story_id].final_points[1] # 0

archive_stories == SelectSeq(get_all_stories, IsArchiveWithPoints)

\* What the loop body of lines 119-148 can make of one archive story: None
\* when it is skipped (no chunk, or no embedding for the first chunk), else
\* the entry appended to similarities.
EvidenceOf(query, story_id) ==
    IF ChunkRows(STORY, story_id) = {} THEN {None}
    ELSE UNION {IF get_embedding_by_chunk(c.id, None) = {} THEN {None}
                ELSE {Some(<<[story_id |-> story_id, chunk_id |-> c.id,
                               embedding_model |-> e.embedding_model],
                              cosine_similarity(query, e.embedding_vector)>>) :
                         e \in get_embedding_by_chunk(c.id, None)}
                : c \in FirstChunks(STORY, story_id)}

\* The entries of similarities in loop order, for one choice of entries.
RECURSIVE Similarities(_, _)
Similarities(ids, entry) ==
    IF ids = <<>> THEN <<>>
    ELSE (IF entry[Head(ids)] = None THEN <<>> ELSE <<entry[Head(ids)][1]>>)
         \o Similarities(Tail(ids), entry)

LIMIT == 5

\* find_similar_stories_with_points: Raised when numpy cannot multiply the
\* two vectors, else the list sorted by similarity, cut to limit.
find_similar_stories_with_points(entry, limit) ==
    LET similarities == Similarities(archive_stories, entry)
    IN  IF \E i \in 1..Len(similarities) : similarities[i][2].raised THEN Raised
        ELSE Value(Truncate(SortBySimilarityDesc(
                       [i \in 1..Len(similarities) |->
                           <<similarities[i][1], similarities[i][2].value>>]), limit))

\* check_ai_availability: the environment (API key, installed packages) and
\* at least one stored embedding
check_ai_availability(environment_ok) == environment_ok /\ ai_embeddings # {}

\* estimate_story_with_ai: what was handed to the reasoning model, whether
\* it was called, and the returned points (None for every failure).
estimate_story_with_ai(story_id, environment_ok, entry, answer) ==
    LET query_model == get_model_name(SENTENCE_TRANSFORMERS)
        nothing == [story_id |-> story_id, query_model |-> query_model,
                    similar_stories |-> <<>>, model_called |-> FALSE, points |-> None]
    IN  IF ~check_ai_availability(environment_ok) THEN nothing
        ELSE IF story_id \notin DOMAIN stories THEN nothing
        ELSE LET similar == find_similar_stories_with_points(entry, LIMIT)
             IN  IF similar.raised THEN nothing
                 ELSE IF similar.value = <<>> THEN nothing
                 ELSE [story_id |-> story_id, query_model |-> query_model,
                       similar_stories |-> similar.value,
                       model_called |-> TRUE, points |-> answer]

----------------------------------------------------------------------------
(* Pipeline harness: the chunk-and-embed pipeline of ai/setup_ai.py         *)
(* (process_all_stories) and app.py (POST /admin/generate-embeddings),      *)
(* batch_generate_and_store, delete_chunks_by_source and                    *)
(* estimate_story_with_ai, over one database.                               *)
(*                                                                          *)
(* Every database call opens its own connection and commits, so each call   *)
(* is one step and the steps of concurrent runs interleave. A run is a      *)
(* record: pc is its position, todo the stories still to visit, pending the *)
(* chunks of the current story (or of the batch) still to handle. failed    *)
(* and had_chunks only observe the run: the positions whose embedding       *)
(* failed, and the stories that had chunks when the run started and have    *)
(* not been deleted since.                                                  *)

MaxRuns == 2

\* The vectors the embedding providers return, and the query vectors.
EmbeddingVectors == {<<1, 0>>, <<0, 1>>}
QueryVectors == {<<1, 0>>, <<0, 1>>, <<3, 4>>}

\* The answers of the reasoning model: points, or None when the call fails.
Answers == {None, Some(3)}

TitleOnly == <<TITLE, " ", "b">>

\* A row of the stories table; combined_text is what preprocess_story makes
\* of its title and description.
StoryRow(status, final_points, source, combined_text) ==
    [status |-> status, final_points |-> final_points, source |-> source,
     combined_text |-> combined_text]

\* The stories tables tried: an archive story with points, and a second
\* story that is another archive story, a story estimated in the application
\* or a story still waiting.
StoryTables ==
    {[id \in 1..2 |-> IF id = 1
                      THEN StoryRow("completed", Some(5), JIRA_ARCHIVE, TitleAndDescription)
                      ELSE second] :
        second \in {StoryRow("completed", Some(8), JIRA_ARCHIVE, TitleOnly),
                    StoryRow("completed", Some(3), MANUAL, TitleOnly),
                    StoryRow("pending", None, MANUAL, TitleOnly)}}

Providers == {MOCK, SENTENCE_TRANSFORMERS}

\* The stories of the table that have chunks
StoriesWithChunks == {s \in DOMAIN stories : ChunkRows(STORY, s) # {}}

\* get_stories_without_embeddings()["missing_stories"]
missing_stories ==
    SelectSeq(get_all_stories,
              LAMBDA s : /\ stories[s].status = "completed"
                         /\ stories[s].final_points # None
                         /\ ChunkRows(STORY, s) = {})

PROCESS_ALL_STORIES == "process_all_stories"
GENERATE_MISSING_EMBEDDINGS == "generate_missing_embeddings"
BATCH == "batch_generate_and_store"

NewRun(kind, provider_type, db_module, todo, pending) ==
    [kind |-> kind, model |-> get_model_name(provider_type), strategy |-> STORY,
     db_module |-> db_module,
     pc |-> IF kind # BATCH THEN "next_story" ELSE IF pending = <<>> THEN "done" ELSE "batch",
     todo |-> todo, pending |-> pending, chunk_id |-> None, input |-> pending,
     results |-> <<>>, failed |-> {}, had_chunks |-> StoriesWithChunks]

InitAi ==
    /\ IdleConsensus
    /\ IdleSimilar
    /\ IdleExtract
    /\ IdleChunk
    /\ IdleAi
    /\ ai_enabled = FALSE
    /\ users = <<>>
    /\ stories \in StoryTables
    /\ next_story_id = 3
    /\ votes = {}
    /\ clock = 0
    /\ ai_tasks = <<>>
    /\ requests = <<>>

UnchangedButAi ==
    UNCHANGED <<varsConsensus, varsSimilar, varsExtract, varsApp, varsChunk>>

\* python setup_ai.py process --provider <provider_type>
ProcessAllStories(provider_type) ==
    /\ Len(runs) < MaxRuns
    /\ runs' = Append(runs, NewRun(PROCESS_ALL_STORIES, provider_type, TRUE, get_all_stories,
                                  <<>>))
    /\ UNCHANGED <<ai_chunks, ai_embeddings, next_chunk_id, next_embedding_id, estimation>>

\* POST /admin/generate-embeddings, up to the loop over stories_to_process
GenerateMissingEmbeddings(provider_type) ==
    /\ Len(runs) < MaxRuns
    /\ runs' = Append(runs, NewRun(GENERATE_MISSING_EMBEDDINGS, provider_type, TRUE,
                                  missing_stories, <<>>))
    /\ UNCHANGED <<ai_chunks, ai_embeddings, next_chunk_id, next_embedding_id, estimation>>

\* Mutant: the pipeline does not look for existing chunks.
AlreadyProcessed_Never(story_id) == FALSE

\* existing = get_chunks_by_source('story', story['id']); if existing
AlreadyProcessed(story_id) == get_chunks_by_source(STORY, story_id) # <<>>

\* The head of the loop over the stories: return after the last story, skip
\* a story that has chunks, else chunk its combined text.
RunNextStory(r) ==
    /\ runs[r].pc = "next_story"
    /\ LET run == runs[r]
           chunks == chunk_story(Str(stories[Head(run.todo)].combined_text))
       IN  runs' = [runs EXCEPT ![r] =
                IF run.todo = <<>> THEN [run EXCEPT !.pc = "done"]
                ELSE IF AlreadyProcessed(Head(run.todo)) \/ chunks = <<>>
                THEN [run EXCEPT !.todo = Tail(run.todo)]
                ELSE [run EXCEPT !.pending = chunks, !.pc = "create_chunk"]]
    /\ UNCHANGED <<ai_chunks, ai_embeddings, next_chunk_id, next_embedding_id, estimation>>

\* chunk_id = create_chunk(...) for the next chunk of the current story
RunCreateChunk(r) ==
    /\ runs[r].pc = "create_chunk"
    /\ LET run == runs[r]
           chunk == Head(run.pending)
       IN  /\ ai_chunks' = create_chunk(STORY, Head(run.todo), chunk.text, chunk.index,
                                        run.strategy)
           /\ runs' = [runs EXCEPT ![r] = [run EXCEPT !.chunk_id = Some(next_chunk_id),
                                                      !.pc = "generate_and_store"]]
    /\ next_chunk_id' = next_chunk_id + 1
    /\ UNCHANGED <<ai_embeddings, next_embedding_id, estimation>>

\* generator.generate_and_store(chunk_id, chunk['text'], db_ai), then the
\* next chunk, or the next story after the last chunk
RunGenerateAndStore(r, generated, stored) ==
    /\ runs[r].pc = "generate_and_store"
    /\ LET run == runs[r]
           outcome == generate_and_store(run.chunk_id[1], run.model, run.db_module,
                                         generated, stored)
           rest == Tail(run.pending)
       IN  /\ ai_embeddings' = outcome.embeddings
           /\ next_embedding_id' = IF outcome.embedding_id = None THEN next_embedding_id
                                   ELSE next_embedding_id + 1
           /\ runs' = [runs EXCEPT ![r] =
                    [run EXCEPT !.pending = rest, !.chunk_id = None,
                                !.todo = IF rest = <<>> THEN Tail(run.todo) ELSE run.todo,
                                !.pc = IF rest = <<>> THEN "next_story" ELSE "create_chunk"]]
    /\ UNCHANGED <<ai_chunks, next_chunk_id, estimation>>

\* generator.batch_generate_and_store(get_chunks_by_source('story', id), db)
BatchGenerateAndStore(provider_type, story_id, db_module) ==
    /\ Len(runs) < MaxRuns
    /\ LET rows == get_chunks_by_source(STORY, story_id)
           chunks == [i \in 1..Len(rows) |->
                         [id |-> rows[i].id, chunk_text |-> rows[i].chunk_text]]
       IN  runs' = Append(runs, NewRun(BATCH, provider_type, db_module, <<>>, chunks))
    /\ UNCHANGED <<ai_chunks, ai_embeddings, next_chunk_id, next_embedding_id, estimation>>

\* One round of the loop of batch_generate_and_store; the list is returned
\* after the last chunk.
BatchStep(r, generated, stored) ==
    /\ runs[r].pc = "batch"
    /\ LET run == runs[r]
           chunk == Head(run.pending)
           outcome == generate_and_store(chunk.id, run.model, run.db_module,
                                         generated, stored)
           rest == Tail(run.pending)
       IN  /\ ai_embeddings' = outcome.embeddings
           /\ next_embedding_id' = IF outcome.embedding_id = None THEN next_embedding_id
                                   ELSE next_embedding_id + 1
           /\ runs' = [runs EXCEPT ![r] =
                    [run EXCEPT !.pending = rest,
                                !.results = AppendResult(run.results, outcome.embedding_id),
                                !.failed = IF generated.raised \/ ~stored
                                           THEN run.failed \cup {Len(run.input) - Len(rest)}
                                           ELSE run.failed,
                                !.pc = IF rest = <<>> THEN "done" ELSE "batch"]]
    /\ UNCHANGED <<ai_chunks, next_chunk_id, estimation>>

\* delete_chunks_by_source('story', story_id) on a source that has chunks
DeleteChunksBySource(story_id) ==
    /\ ChunkRows(STORY, story_id) # {}
    /\ ai_chunks' = delete_chunks_by_source(STORY, story_id)
    /\ runs' = [r \in DOMAIN runs |->
                   [runs[r] EXCEPT !.had_chunks = runs[r].had_chunks \ {story_id}]]
    /\ UNCHANGED <<ai_embeddings, next_chunk_id, next_embedding_id, estimation>>

\* estimate_story_with_ai(story_id). The query vector comes from the
\* sentence_transformers provider.
EstimateStory(story_id, environment_ok, query, answer) ==
    /\ \E entry \in [DOMAIN stories -> UNION {EvidenceOf(query, s) : s \in DOMAIN stories}] :
          /\ \A s \in DOMAIN stories : entry[s] \in EvidenceOf(query, s)
          /\ estimation' = Returned(
                 estimate_story_with_ai(story_id, environment_ok, entry, answer))
    /\ UNCHANGED <<ai_chunks, ai_embeddings, next_chunk_id, next_embedding_id, runs>>

\* What provider.generate_embedding can do: raise, or return a vector.
Generated == {Raised} \cup {Value(v) : v \in EmbeddingVectors}

\* The pipeline under its defaults (the CLI embeds with the mock provider,
\* the admin request with sentence_transformers), batches and deletions.
NextPipeline ==
    /\ \/ ProcessAllStories(MOCK)
       \/ GenerateMissingEmbeddings(SENTENCE_TRANSFORMERS)
       \/ \E r \in DOMAIN runs : RunNextStory(r)
       \/ \E r \in DOMAIN runs : RunCreateChunk(r)
       \/ \E r \in DOMAIN runs, g \in {Raised, Value(<<1, 0>>)}, stored \in BOOLEAN :
              RunGenerateAndStore(r, g, stored)
       \/ \E s \in DOMAIN stories, db_module \in BOOLEAN :
              BatchGenerateAndStore(MOCK, s, db_module)
       \/ \E r \in DOMAIN runs, g \in {Raised, Value(<<1, 0>>)}, stored \in BOOLEAN :
              BatchStep(r, g, stored)
       \/ \E s \in DOMAIN stories : DeleteChunksBySource(s)
    /\ UnchangedButAi

InitPipeline ==
    /\ InitAi
    /\ stories[2].source = MANUAL

SpecPipeline == InitPipeline /\ [][NextPipeline]_vars

\* Two pipeline runs under the defaults, and nothing else.
NextInterleave ==
    /\ \/ ProcessAllStories(MOCK)
       \/ GenerateMissingEmbeddings(SENTENCE_TRANSFORMERS)
       \/ \E r \in DOMAIN runs : RunNextStory(r)
       \/ \E r \in DOMAIN runs : RunCreateChunk(r)
       \/ \E r \in DOMAIN runs, g \in {Raised, Value(<<1, 0>>)}, stored \in BOOLEAN :
              RunGenerateAndStore(r, g, stored)
    /\ UnchangedButAi

SpecInterleave == InitPipeline /\ [][NextInterleave]_vars

MaxEstimateRuns == 1

\* Pipeline runs with either provider, and one estimation request at any
\* point of them.
NextEstimate ==
    /\ \/ /\ estimation = NotCalled
          /\ \/ \E p \in Providers : Len(runs) < MaxEstimateRuns /\ ProcessAllStories(p)
             \/ \E p \in Providers : Len(runs) < MaxEstimateRuns /\ GenerateMissingEmbeddings(p)
             \/ \E r \in DOMAIN runs : RunNextStory(r)
             \/ \E r \in DOMAIN runs : RunCreateChunk(r)
             \/ \E r \in DOMAIN runs, g \in Generated, stored \in BOOLEAN :
                    RunGenerateAndStore(r, g, stored)
       \/ \E s \in DOMAIN stories \cup {next_story_id}, ok \in BOOLEAN, q \in QueryVectors,
             a \in Answers :
              EstimateStory(s, ok, q, a)
    /\ UnchangedButAi

SpecEstimate == InitAi /\ [][NextEstimate]_vars

----------------------------------------------------------------------------
(* Properties of the consensus engine (SpecConsensus) *)

Count(s, v) == Cardinality({i \in 1..Len(s) : s[i] = v})

FirstIndex(s, v) == CHOOSE i \in 1..Len(s) : s[i] = v /\ \A j \in 1..(i - 1) : s[j] # v

\* The rearrangements of s.
Rearrangements(s) ==
    {p \in [1..Len(s) -> Range(s)] : \A v \in Range(s) : Count(p, v) = Count(s, v)}

AllEqual(s) == \A i, j \in 1..Len(s) : s[i] = s[j]

\* The most frequent value of s, ties going to the value that occurs first.
MostFrequent(s) ==
    CHOOSE v \in Range(s) :
        \A w \in Range(s) \ {v} :
            \/ Count(s, w) < Count(s, v)
            \/ Count(s, w) = Count(s, v) /\ FirstIndex(s, v) < FirstIndex(s, w)

SecondHighest(s) == Max(Range(s) \ {Max(Range(s))})

\* C1: check_consensus depends only on the multiset of votes: every
\* permutation of the vote list gives the same (outcome, suggested_points,
\* alternative_points) triple.
C1_PermutationInvariant ==
    cc_result # NotCalled =>
        \A p \in Rearrangements(vote_values) : check_consensus(p) = cc_result[1]

\* C2 as stated: for a non-empty vote list the outcome is 'consensus' or
\* 'divergence'; all votes equal gives ('consensus', value, None), and
\* 'consensus' is returned only when all votes are equal.
C2_TwoOutcomes ==
    (cc_result # NotCalled /\ vote_values # <<>>) =>
        /\ cc_result[1].outcome \in {"consensus", "divergence"}
        /\ AllEqual(vote_values) =>
              cc_result[1] = [outcome |-> "consensus", suggested |-> Some(vote_values[1]),
                              alternative |-> None]
        /\ cc_result[1].outcome = "consensus" => AllEqual(vote_values)

\* C2 amended: for a non-empty vote list the outcome is 'consensus',
\* 'near_consensus' or 'divergence'; all votes equal gives
\* ('consensus', value, None), and 'consensus' is returned only when all
\* votes are equal.
C2_ThreeOutcomes ==
    (cc_result # NotCalled /\ vote_values # <<>>) =>
        /\ cc_result[1].outcome \in {"consensus", "near_consensus", "divergence"}
        /\ AllEqual(vote_values) =>
              cc_result[1] = [outcome |-> "consensus", suggested |-> Some(vote_values[1]),
                              alternative |-> None]
        /\ cc_result[1].outcome = "consensus" => AllEqual(vote_values)

\* C2 witnesses: a call on equal votes, and a call on votes that are not.
C2_Witness ==
    /\ cc_result # NotCalled
    /\ Len(vote_values) >= 3
    /\ AllEqual(vote_values)
    /\ cc_result[1].outcome = "consensus"

\* C3 as stated: for a non-empty vote list whose votes are not all equal the
\* suggested value is the highest vote.
C3_SuggestsHighest ==
    (cc_result # NotCalled /\ vote_values # <<>> /\ ~AllEqual(vote_values)) =>
        cc_result[1].suggested = Some(Max(Range(vote_values)))

\* C3 amended: for a non-empty vote list whose votes are not all equal the
\* outcome is 'divergence' or 'near_consensus'; with 'divergence' the suggested
\* value is the highest vote, with 'near_consensus' it is the value of all
\* voters but one, whether or not the remaining vote is higher.
C3_SuggestsHighestOnDivergence ==
    (cc_result # NotCalled /\ vote_values # <<>> /\ ~AllEqual(vote_values)) =>
        /\ cc_result[1].outcome \in {"divergence", "near_consensus"}
        /\ cc_result[1].outcome = "divergence" =>
              /\ cc_result[1].suggested = Some(Max(Range(vote_values)))
              /\ \A v \in Range(vote_values) : v <= cc_result[1].suggested[1]
        /\ cc_result[1].outcome = "near_consensus" =>
              /\ cc_result[1].suggested # None
              /\ Count(vote_values, cc_result[1].suggested[1]) = Len(vote_values) - 1

\* C3 witness: a divergent round with a majority below the highest vote.
C3_Witness ==
    /\ cc_result # NotCalled
    /\ Len(vote_values) >= 3
    /\ cc_result[1].outcome = "divergence"
    /\ MostFrequent(vote_values) # Max(Range(vote_values))
    /\ Count(vote_values, MostFrequent(vote_values)) > 1

\* C4: for a vote list with at least two distinct values,
\* calculate_alternative_value(votes, max(votes)) is the most frequent value
\* (ties to the first occurrence) when that value is not the highest and
\* occurs more than once, and the second-highest distinct value otherwise; so
\* it is not None, is a submitted value and is below the highest. For a list
\* of length 0 or 1 it is None.
C4_AlternativeValue ==
    alt_result # NotCalled =>
        /\ Len(vote_values) <= 1 => alt_result[1] = None
        /\ (Cardinality(Range(vote_values)) >= 2
              /\ highest_value = Some(Max(Range(vote_values)))) =>
              /\ alt_result[1] =
                    IF MostFrequent(vote_values) # highest_value[1]
                       /\ Count(vote_values, MostFrequent(vote_values)) > 1
                    THEN Some(MostFrequent(vote_values))
                    ELSE Some(SecondHighest(vote_values))
              /\ alt_result[1] # None
              /\ alt_result[1][1] \in Range(vote_values)
              /\ alt_result[1][1] < highest_value[1]

\* C4 witness: two values tie for the most frequent and the one met first,
\* which is not the lower one, is returned.
C4_Witness ==
    /\ alt_result # NotCalled
    /\ Len(vote_values) >= 4
    /\ highest_value = Some(Max(Range(vote_values)))
    /\ \E v, w \in Range(vote_values) :
          /\ v > w
          /\ v # highest_value[1]
          /\ Count(vote_values, v) = Count(vote_values, w)
          /\ Count(vote_values, v) > 1
          /\ alt_result[1] = Some(v)

----------------------------------------------------------------------------
(* Properties of the similarity retrieval (SpecSimilar) *)

\* The similarity of candidate i to the query, for equal dimensions.
SimilarityOf(i) == cosine_similarity(query_embedding, candidate_embeddings[i][2]).value

SameDimension(i) == Len(candidate_embeddings[i][2]) = Len(query_embedding)

\* The candidates that reach min_similarity.
Passing == {i \in 1..Len(candidate_embeddings) : SimGE(SimilarityOf(i), min_similarity)}

\* How many passing candidates come before candidate i in the ranking:
\* those more similar, and the equally similar ones earlier in the input.
RankOf(i) ==
    Cardinality({j \in Passing :
        \/ SimGT(SimilarityOf(j), SimilarityOf(i))
        \/ j < i /\ SimGE(SimilarityOf(j), SimilarityOf(i))})

\* C7: the output of find_similar_chunks is sorted non-increasing by
\* similarity, every returned similarity is >= min_similarity and the output
\* has at most top_k entries; top_k = 0 gives an empty output and so does an
\* empty candidate list, neither raising an error: the call raises only for
\* a candidate whose dimension differs from the query's.
C7_RetrievalOrdering ==
    similar_result # NotCalled =>
        LET r == similar_result[1]
            out == r.value
        IN  /\ r.raised <=> \E i \in 1..Len(candidate_embeddings) : ~SameDimension(i)
            /\ ~r.raised =>
                  /\ \A k \in 1..(Len(out) - 1) : SimGE(out[k][2], out[k + 1][2])
                  /\ \A k \in 1..Len(out) : SimGE(out[k][2], min_similarity)
                  /\ Len(out) <= top_k
                  /\ top_k = 0 => out = <<>>
            /\ candidate_embeddings = <<>> => ~r.raised /\ out = <<>>

\* C7 witness: a call that dropped a candidate below the threshold and cut
\* the rest to top_k.
C7_Witness ==
    /\ similar_result # NotCalled
    /\ ~similar_result[1].raised
    /\ top_k >= 1
    /\ Len(similar_result[1].value) = top_k
    /\ similar_result[1].value[1][1] = Len(candidate_embeddings)
    /\ Cardinality(Passing) > top_k
    /\ Cardinality(Passing) < Len(candidate_embeddings)

\* C8, the result: find_similar_chunks returns the first top_k passing
\* candidates in the order of descending similarity with ties in input order;
\* so no omitted passing candidate is more similar than a returned one and
\* equally similar candidates appear in input order.
C8_RankedResult ==
    (similar_result # NotCalled /\ ~similar_result[1].raised) =>
        LET out == similar_result[1].value
        IN  /\ Len(out) = IF top_k < Cardinality(Passing) THEN top_k ELSE Cardinality(Passing)
            /\ \A k \in 1..Len(out) :
                  \E i \in Passing :
                      /\ RankOf(i) = k - 1
                      /\ out[k] = <<candidate_embeddings[i][1], SimilarityOf(i)>>
            /\ \A i \in Passing :
                  (\A k \in 1..Len(out) : out[k][1] # candidate_embeddings[i][1]) =>
                      \A k \in 1..Len(out) : ~SimGT(SimilarityOf(i), out[k][2])
            /\ \A k, l \in 1..Len(out) :
                  (k < l /\ SimGE(out[l][2], out[k][2])) => out[k][1] < out[l][1]

\* C8: the result is the ranked prefix (C8_RankedResult), and the call leaves
\* the candidate list it was given as it was.
C8_RankedPrefixNoSideEffect ==
    /\ []C8_RankedResult
    /\ [][similar_result' # similar_result =>
            candidate_embeddings' = candidate_embeddings]_vars

\* C8 witness: two equally similar candidates are returned and a third,
\* equally similar one later in the input is cut off by top_k.
C8_Witness ==
    /\ similar_result # NotCalled
    /\ ~similar_result[1].raised
    /\ Len(similar_result[1].value) = 2
    /\ Passing = {1, 2, 3}
    /\ \A i, j \in Passing : SimGE(SimilarityOf(i), SimilarityOf(j))
    /\ candidate_embeddings[1][2] # candidate_embeddings[2][2]
    /\ similar_result[1].value[1][1] = 1
    /\ similar_result[1].value[2][1] = 2

\* sum(a * a for a in embedding) ** 0.5 == 0
ZeroMagnitude(embedding) == \A i \in 1..Len(embedding) : embedding[i] = 0

\* The similarity 0.0 of line 433
ExactlyZero == [num |-> 0, den2 |-> 1]

\* C25: cosine_similarity raises whenever the two vectors differ in length,
\* and for vectors of one length returns exactly 0.0 whenever either has
\* zero magnitude; find_similar_chunks raises that error for a candidate of
\* another length instead of skipping or coercing it, whatever top_k and
\* min_similarity are.
C25_MismatchRaisesZeroIsZero ==
    /\ \A i \in 1..Len(candidate_embeddings) :
          LET similarity == cosine_similarity(query_embedding, candidate_embeddings[i][2])
          IN  /\ similarity.raised <=> ~SameDimension(i)
              /\ (SameDimension(i) /\ (ZeroMagnitude(query_embedding)
                                       \/ ZeroMagnitude(candidate_embeddings[i][2])))
                     => similarity.value = ExactlyZero
    /\ similar_result # NotCalled =>
          /\ (\E i \in 1..Len(candidate_embeddings) : ~SameDimension(i))
                 => similar_result[1].raised
          /\ ~similar_result[1].raised =>
                 \A k \in 1..Len(similar_result[1].value) :
                     LET hit == similar_result[1].value[k]
                     IN  (ZeroMagnitude(query_embedding)
                          \/ ZeroMagnitude(candidate_embeddings[hit[1]][2]))
                             => hit[2] = ExactlyZero

\* C25 witness: a call with a zero vector among the candidates has returned
\* it with similarity 0.0, and the query is no zero vector.
C25_Witness ==
    /\ similar_result # NotCalled
    /\ ~similar_result[1].raised
    /\ ~ZeroMagnitude(query_embedding)
    /\ \E k \in 1..Len(similar_result[1].value) :
          /\ ZeroMagnitude(candidate_embeddings[similar_result[1].value[k][1]][2])
          /\ similar_result[1].value[k][2] = ExactlyZero

----------------------------------------------------------------------------
(* Properties of extract_story_points (SpecExtract) *)

RECURSIVE Pow10(_)
Pow10(n) == IF n = 0 THEN 1 ELSE 10 * Pow10(n - 1)

RECURSIVE SumOver(_, _, _)
SumOver(t, S, e) ==
    IF S = {} THEN 0
    ELSE LET k == CHOOSE x \in S : TRUE
         IN  DigitValue[t[k]] * Pow10(e - k) + SumOver(t, S \ {k}, e)

\* The decimal number written at positions j..e of t.
DecimalValue(t, j, e) == SumOver(t, j..e, e)

\* Positions j..e of t hold a whole run of digits, not continued behind e.
DigitRun(t, j, e) ==
    /\ j <= e
    /\ e <= Len(t)
    /\ \A k \in j..e : IsDigit(t[k])
    /\ e < Len(t) => ~IsDigit(t[e + 1])

\* The label at position i is followed by optional whitespace and the digits j..e.
LabelledValueAt(t, i, j, e) ==
    /\ i \in 1..Len(t)
    /\ t[i] = LABEL
    /\ i < j
    /\ \A k \in (i + 1)..(j - 1) : IsSpace(t[k])
    /\ DigitRun(t, j, e)

HasLabelledValue(t) == \E i, j, e \in 1..Len(t) : LabelledValueAt(t, i, j, e)

\* The value behind the first label that is followed by a number.
FirstLabelledValue(t) ==
    LET i == CHOOSE i \in 1..Len(t) :
                 /\ \E j, e \in 1..Len(t) : LabelledValueAt(t, i, j, e)
                 /\ \A h \in 1..(i - 1) : ~\E j, e \in 1..Len(t) : LabelledValueAt(t, h, j, e)
        je == CHOOSE je \in (1..Len(t)) \X (1..Len(t)) : LabelledValueAt(t, i, je[1], je[2])
    IN  DecimalValue(t, je[1], je[2])

\* The text starts, behind optional whitespace, with the digits j..e.
LeadingIntegerAt(t, j, e) ==
    /\ \A k \in 1..(j - 1) : IsSpace(t[k])
    /\ DigitRun(t, j, e)

HasLeadingInteger(t) == \E j, e \in 1..Len(t) : LeadingIntegerAt(t, j, e)

LeadingInteger(t) ==
    LET je == CHOOSE je \in (1..Len(t)) \X (1..Len(t)) : LeadingIntegerAt(t, je[1], je[2])
    IN  DecimalValue(t, je[1], je[2])

Scale == Range(ESTIMATION_SCALE)

\* r is v when v is on the scale, and otherwise the smallest scale value >= v.
IsSnappedUp(r, v) ==
    /\ v \in Scale => r = v
    /\ v \notin Scale =>
          /\ r \in Scale
          /\ r >= v
          /\ \A f \in Scale : f >= v => r <= f

\* C9 as stated: with a labelled value v in the response the result is v when
\* v is on the scale and otherwise the smallest scale value >= v; the result
\* is never smaller than v.
C9_SnapsUpward ==
    (points_result # NotCalled /\ HasLabelledValue(text)) =>
        /\ IsSnappedUp(points_result[1], FirstLabelledValue(text))
        /\ points_result[1] >= FirstLabelledValue(text)

\* C9 amended: with a labelled value v in the response the result is v when
\* v is on the scale, otherwise the smallest scale value >= v when v <= 89,
\* and 89, the largest scale value, when v > 89; for v <= 89 the result is
\* never smaller than v.
C9_SnapsUpwardWithinScale ==
    (points_result # NotCalled /\ HasLabelledValue(text)) =>
        LET v == FirstLabelledValue(text)
        IN  /\ v <= Max(Scale) =>
                  IsSnappedUp(points_result[1], v) /\ points_result[1] >= v
            /\ v > Max(Scale) => points_result[1] = Max(Scale)

\* C9 witness: the labelled value 9 has become 13.
C9_Witness ==
    /\ points_result = Returned(13)
    /\ HasLabelledValue(text)
    /\ FirstLabelledValue(text) = 9

----------------------------------------------------------------------------
(* Properties of the stored votes (Spec) *)

\* The vote stored under the key (story_id, user_name, round), if any.
StoredVotes(story_id, user_name, round_num) ==
    VotesWithKey(votes, story_id, user_name, round_num)

\* The step is the step of /vote that casts the user's card under the key of
\* the stored vote v.
VoteCastsAgain(v, points) ==
    /\ points \in Range(FIBONACCI)
    /\ get_active_story = Some(v.story_id)
    /\ stories[v.story_id].round = v.round
    /\ Vote(v.user_name, points)

\* The step is the step of background task t that casts the AI vote under the
\* key of the stored vote v.
AiCastsAgain(v, t) ==
    /\ v.user_name = AI_USER_NAME
    /\ ai_tasks[t].pc = "read"
    /\ ai_tasks[t].story_id = v.story_id
    /\ ai_tasks[t].round = Some(v.round)
    /\ AiCastVote(t)

\* After the step the vote v is replaced by one with the given points and the
\* time of the step; the votes are as many as before and the others are the
\* same.
Replaced(v, points) ==
    /\ Cardinality(votes') = Cardinality(votes)
    /\ votes' \ VotesWithKey(votes', v.story_id, v.user_name, v.round)
          = votes \ {v}
    /\ VotesWithKey(votes', v.story_id, v.user_name, v.round)
          = {[story_id |-> v.story_id, user_name |-> v.user_name,
              points |-> points, round |-> v.round, voted_at |-> clock]}

\* C5: every stored vote, cast by a human through /vote or by the AI
\* background task from extract_story_points, has a point value that is a
\* member of the Fibonacci estimation scale.
C5_VotesOnScale ==
    \A v \in votes : v.points \in Range(FIBONACCI)

\* C6: at most one vote is stored per (story, user, round).
UniqueVotes ==
    \A v, w \in votes :
        (v.story_id = w.story_id /\ v.user_name = w.user_name /\ v.round = w.round)
            => v = w

\* C6: casting a vote for a triple that has a vote replaces the points and
\* the timestamp of that vote and leaves the number of votes and every other
\* vote unchanged.
RecastReplaces ==
    \A v \in votes :
        /\ \A points \in FormPoints : VoteCastsAgain(v, points) => Replaced(v, points)
        /\ \A t \in 1..Len(ai_tasks) :
              AiCastsAgain(v, t) => Replaced(v, ai_tasks[t].points[1])

\* C6: in every reachable state there is at most one vote per (story, user,
\* round); casting a vote again for the same triple replaces the points and
\* timestamp of the existing vote and leaves the number of votes and every
\* other vote unchanged.
C6_OneVotePerTriple ==
    []UniqueVotes /\ [][RecastReplaces]_vars

\* C6 witness: a user's vote has been cast a second time for the same triple,
\* with other points, while another user's vote is stored.
C6_Witness ==
    \E v, w \in votes :
        /\ v.user_name # w.user_name
        /\ v.story_id = w.story_id /\ v.round = w.round
        /\ v.voted_at = 2
        /\ w.voted_at = 0
        /\ v.points = 3
        /\ clock = 3

----------------------------------------------------------------------------
(* Properties of the chunking strategies (SpecChunk) *)

\* The text positions (from 0) that lie in the window of chunk c of a
\* FixedSizeChunking, read as the slice text[start_pos:end_pos].
WindowOf(t, c) ==
    {q \in 0..(Len(t) - 1) :
        SliceBound(c.start_pos, Len(t)) <= q /\ q < SliceBound(c.end_pos, Len(t))}

\* The call is one of a FixedSizeChunking with 0 <= overlap < chunk_size.
IsFixedSizeCall ==
    /\ ch_strategy.type = "fixed"
    /\ ch_strategy.overlap >= 0
    /\ ch_strategy.overlap < ch_strategy.chunk_size

\* C15: for every strategy (fixed, sentence, paragraph including its
\* fixed-size fallback, story) and every input text, the emitted chunk list
\* has the indexes 0, 1, ..., n-1 in list order and every chunk text is
\* non-empty with no leading or trailing whitespace; None or empty text
\* yields an empty list without error.
C15_DenseIndexesTrimmedTexts ==
    /\ ch_pc = "returned" =>
          \A k \in 1..Len(ch_chunks) :
              /\ ch_chunks[k].index = k - 1
              /\ ch_chunks[k].text # <<>>
              /\ ~IsWhitespace(ch_chunks[k].text[1])
              /\ ~IsWhitespace(ch_chunks[k].text[Len(ch_chunks[k].text)])
    /\ (ch_pc # "idle" /\ (ch_text.none \/ ch_text.chars = <<>>)) =>
          /\ ch_pc \in {"called", "returned"}
          /\ ch_chunks = <<>>

\* C15 witness: the fixed-size fallback of the paragraph strategy has
\* returned two chunks.
C15_Witness ==
    /\ ch_pc = "returned"
    /\ ch_strategy.type = "paragraph"
    /\ ch_loop # <<>>
    /\ Len(ch_chunks) = 2

\* C17: for every text and every FixedSizeChunking configuration with
\* 0 <= overlap < chunk_size, every word of the input text appears in the
\* text of at least one emitted chunk: every position of the text that holds
\* no whitespace lies in the window of some chunk.
C17_EveryWordCovered ==
    (IsFixedSizeCall /\ ch_pc = "returned") =>
        \A q \in 0..(Len(ch_text.chars) - 1) :
            ~IsWhitespace(ch_text.chars[q + 1]) =>
                \E k \in 1..Len(ch_chunks) : q \in WindowOf(ch_text.chars, ch_chunks[k])

\* The positions of the words "hello" and "world" in HelloWorld.
HelloAndWorld == {0..4, 6..10}

\* C18: FixedSizeChunking(chunk_size=10, overlap=2) applied to
\* "hello world foo bar" never splits "hello" or "world" mid-word: no emitted
\* chunk contains only a proper fragment of either word.
C18_NoMidWordSplit ==
    (/\ ch_pc = "returned"
     /\ ch_strategy = [type |-> "fixed", chunk_size |-> 10, overlap |-> 2]
     /\ ch_text = Str(HelloWorld)) =>
        \A k \in 1..Len(ch_chunks), word \in HelloAndWorld :
            LET window == WindowOf(HelloWorld, ch_chunks[k])
            IN  window \cap word = {} \/ word \subseteq window

\* The order of the sections in a chunk list.
SectionRank(section) ==
    CASE section = "title" -> 1
      [] section = "description" -> 2
      [] section = "voting" -> 3
      [] section = "comments" -> 4

\* The label of a section.
SectionLabel(section) ==
    CASE section = "title" -> TITLE
      [] section = "description" -> DESCRIPTION
      [] section = "voting" -> VOTING
      [] section = "comments" -> COMMENTS

\* The chunks of one section in the emitted list.
ChunksOfSection(section) == {k \in 1..Len(ch_chunks) : ch_chunks[k].section = section}

\* The section's label occurs in the text, with something but whitespace
\* after it.
SectionPresent(t, section) ==
    \E i, j \in 1..Len(t) : i < j /\ t[i] = SectionLabel(section) /\ ~IsWhitespace(t[j])

\* The section's label does not occur in the text.
SectionMissing(t, section) == \A i \in 1..Len(t) : t[i] # SectionLabel(section)

\* C19: StoryChunking emits the title chunk first and the sections in the
\* fixed order title, description, voting, comments, with exactly one chunk
\* each for title, voting and comments when present; a section missing from
\* the input produces no chunk, so an input with only 'Title: Foo' and
\* 'Description: Bar' yields exactly 2 chunks.
C19_StorySections ==
    (ch_pc = "returned" /\ ch_strategy.type = "story" /\ ~ch_text.none) =>
        /\ \A k, m \in 1..Len(ch_chunks) :
              k < m => SectionRank(ch_chunks[k].section) <= SectionRank(ch_chunks[m].section)
        /\ \A section \in {"title", "voting", "comments"} :
              /\ Cardinality(ChunksOfSection(section)) <= 1
              /\ SectionPresent(ch_text.chars, section) =>
                    Cardinality(ChunksOfSection(section)) = 1
        /\ SectionPresent(ch_text.chars, "description") =>
              ChunksOfSection("description") # {}
        /\ \A section \in {"title", "description", "voting", "comments"} :
              SectionMissing(ch_text.chars, section) => ChunksOfSection(section) = {}
        /\ \A k \in 1..Len(ch_chunks) :
              ch_chunks[k].text[1] = SectionLabel(ch_chunks[k].section)
        /\ ch_text.chars = TitleAndDescription =>
              /\ Len(ch_chunks) = 2
              /\ ch_chunks[1].section = "title"
              /\ ch_chunks[2].section = "description"

\* C19 witness: the story chunking has returned for 'Title: Foo' and
\* 'Description: Bar'.
C19_Witness ==
    /\ ch_pc = "returned"
    /\ ch_strategy.type = "story"
    /\ ch_text.chars = TitleAndDescription
    /\ Len(ch_chunks) = 2

\* The loop runs for a FixedSizeChunking with chunk_size >= 1 and
\* 0 <= overlap < chunk_size.
ValidFixedSize ==
    /\ ch_loop.chunk_size >= 1
    /\ 0 <= ch_loop.overlap
    /\ ch_loop.overlap < ch_loop.chunk_size

\* C26: FixedSizeChunking.chunk terminates for chunk_size >= 1 and
\* 0 <= overlap < chunk_size: on every pass of the while loop the window
\* start strictly increases, and it never becomes negative.
C26_StartIncreases ==
    [][(ch_pc = "loop" /\ ch_pc' = "loop" /\ ValidFixedSize)
          => /\ ch_loop'.start > ch_loop.start
             /\ ch_loop'.start >= 0]_vars

\* C30: no chunk emitted by SentenceChunking has a text longer than
\* max_chunk_size characters.
C30_SentenceChunkSize ==
    (ch_pc = "returned" /\ ch_strategy.type = "sentence") =>
        \A k \in 1..Len(ch_chunks) : TextLen(ch_chunks[k].text) <= ch_strategy.max_chunk_size

----------------------------------------------------------------------------
(* Properties of evidence gathering (SpecEstimate) *)

\* The suggested default of min_similarity, 0.5 = 1 / sqrt(4).
SuggestedMinSimilarity == [num |-> 1, den2 |-> 4]

\* The evidence handed to the reasoning model by the last estimation
Evidence == estimation[1].similar_stories

\* C11: every evidence story passed to the reasoning model has a similarity
\* to the query of at least min_similarity, and when no archive story
\* reaches the threshold the estimation ends with no result and without a
\* call of the model.
C11_EvidenceReachesThreshold ==
    estimation # NotCalled =>
        /\ \A i \in 1..Len(Evidence) : SimGE(Evidence[i][2], SuggestedMinSimilarity)
        /\ (\A i \in 1..Len(Evidence) : ~SimGE(Evidence[i][2], SuggestedMinSimilarity))
               => /\ ~estimation[1].model_called
                  /\ estimation[1].points = None

\* C12: the query vector is only compared with stored embeddings whose
\* embedding_model is the model identifier of the provider that produced the
\* query vector.
C12_SameModelCompared ==
    estimation # NotCalled =>
        \A i \in 1..Len(Evidence) :
            Evidence[i][1].embedding_model = estimation[1].query_model

----------------------------------------------------------------------------
(* Properties of the pipeline (SpecPipeline, SpecInterleave) *)

\* The embeddings of the chunks in rows
EmbeddingsOf(embeddings, rows) ==
    {e \in embeddings : \E c \in rows : c.id = e.chunk_id}

\* A step of pipeline run r
PipelineStep(r) ==
    \/ RunNextStory(r)
    \/ RunCreateChunk(r)
    \/ \E g \in Generated, stored \in BOOLEAN : RunGenerateAndStore(r, g, stored)

\* C13: a pipeline run that started when a source had chunks, with no
\* deletion of them since, creates no chunk and no embedding for that source
\* and leaves its chunks and embeddings as they are.
C13_SecondRunCreatesNothing ==
    [][\A r \in DOMAIN runs : \A s \in runs[r].had_chunks :
          PipelineStep(r) =>
              LET before == ChunkRows(STORY, s)
                  after == {c \in ai_chunks' : c.source_type = STORY /\ c.source_id = s}
              IN  /\ after = before
                  /\ EmbeddingsOf(ai_embeddings', after) = EmbeddingsOf(ai_embeddings, before)]_vars

\* A run of process_all_stories has gone through all stories, one of which
\* had chunks when it started and still has them.
C13_Witness ==
    \E r \in DOMAIN runs :
        /\ runs[r].kind = PROCESS_ALL_STORIES
        /\ runs[r].pc = "done"
        /\ \E s \in runs[r].had_chunks : ChunkRows(STORY, s) # {}

\* C14: under any interleaving of two pipeline runs, no two persisted chunks
\* share (source_type, source_id, chunk_strategy, chunk_index), and the
\* persisted indexes of a source are 0..n-1 without gaps.
C14_UniqueDenseIndexes ==
    \A s \in DOMAIN stories :
        LET rows == ChunkRows(STORY, s)
        IN  /\ \A c, d \in rows :
                   (c.chunk_strategy = d.chunk_strategy /\ c.chunk_index = d.chunk_index)
                       => c = d
            /\ {c.chunk_index : c \in rows} = 0..(Cardinality(rows) - 1)

\* C16: every persisted embedding references an existing chunk, also after
\* delete_chunks_by_source.
C16_EmbeddingsHaveChunks ==
    \A e \in ai_embeddings : \E c \in ai_chunks : c.id = e.chunk_id

\* The number of chunks a batch has handled
Handled(run) == Len(run.input) - Len(run.pending)

\* C20: batch_generate_and_store gives one result per input chunk, in input
\* order: None where generation or storage failed (or no database module
\* was given), else the id of the embedding stored for that chunk, which
\* stays stored; it returns only after the last chunk.
C20_BatchResults ==
    \A r \in DOMAIN runs :
        runs[r].kind = BATCH =>
            LET run == runs[r]
            IN  /\ Len(run.results) = Handled(run)
                /\ run.pc = "done" <=> Handled(run) = Len(run.input)
                /\ \A i \in 1..Handled(run) :
                      IF i \in run.failed \/ ~run.db_module
                      THEN run.results[i] = None
                      ELSE /\ run.results[i] # None
                           /\ \E e \in ai_embeddings :
                                 /\ e.id = run.results[i][1]
                                 /\ e.chunk_id = run.input[i].id
                                 /\ e.embedding_model = run.model

\* A batch over two chunks has returned: the first chunk failed, the second
\* was embedded and stored.
C20_Witness ==
    \E r \in DOMAIN runs :
        /\ runs[r].kind = BATCH
        /\ runs[r].pc = "done"
        /\ Len(runs[r].input) = 2
        /\ runs[r].results[1] = None
        /\ runs[r].results[2] # None
        /\ 1 \in runs[r].failed

----------------------------------------------------------------------------
(* app.py: the handlers that change a story's status, one step per database *)
(* access. The server (socketio.run with the Werkzeug server) handles        *)
(* requests in threads, and every function of database.py opens its own      *)
(* connection and commits, so the accesses of concurrent requests            *)
(* interleave. A request between two accesses is a record in requests:       *)
(* handler, pc (the access it makes next), the story it works on and, for    *)
(* new_round, the round it has computed. A request that is turned away or    *)
(* has sent its response is not in requests.                                 *)

MaxRequests == 2
MaxHandlerStories == 2
MaxHandlerTasks == 2

Request(handler, pc, story_id, round_num) ==
    [handler |-> handler, pc |-> pc, story_id |-> story_id, round |-> round_num]

\* The request at position r moves on to pc.
Proceed(r, pc) == [requests EXCEPT ![r].pc = pc]

\* The request at position r sends its response.
Respond(r) == SubSeq(requests, 1, r - 1) \o SubSeq(requests, r + 1, Len(requests))

At(r, handler, pc) ==
    /\ r \in 1..Len(requests)
    /\ requests[r].handler = handler
    /\ requests[r].pc = pc

InitHandlers ==
    /\ IdleConsensus
    /\ IdleSimilar
    /\ IdleExtract
    /\ IdleChunk
    /\ IdleAi
    /\ ai_enabled \in BOOLEAN
    /\ users = [n \in (IF ai_enabled THEN {AI_USER_NAME} ELSE {}) |-> FALSE]
    /\ stories = <<>>
    /\ next_story_id = 1
    /\ votes = {}
    /\ clock = 0
    /\ ai_tasks = <<>>
    /\ requests = <<>>

\* create_story, lines 451-466: db.create_story inserts a pending story
CreateStoryInsert(u, start_immediately, auto_start) ==
    /\ UserExists(u)
    /\ next_story_id <= MaxHandlerStories
    /\ start_immediately => Len(requests) < MaxRequests
    /\ stories' = [id \in DOMAIN stories \cup {next_story_id} |->
                      IF id = next_story_id
                      THEN [status |-> "pending", round |-> 1, creator_name |-> u,
                            auto_start |-> auto_start]
                      ELSE stories[id]]
    /\ next_story_id' = next_story_id + 1
    /\ requests' = IF start_immediately
                   THEN Append(requests, Request("create_story", "check_active",
                                                 next_story_id, 1))
                   ELSE requests
    /\ UNCHANGED <<ai_enabled, users, votes, clock, ai_tasks>>

\* create_story, lines 468-470: active_story = get_active_story()
CreateStoryCheckActive(r) ==
    /\ At(r, "create_story", "check_active")
    /\ requests' = IF get_active_story = None THEN Proceed(r, "start_voting") ELSE Respond(r)
    /\ UNCHANGED <<ai_enabled, users, stories, next_story_id, votes, clock, ai_tasks>>

\* create_story, lines 471-477: db.start_voting(story_id)
CreateStoryStartVoting(r) ==
    /\ At(r, "create_story", "start_voting")
    /\ stories' = update_story_status(stories, requests[r].story_id, "voting")
    /\ requests' = Respond(r)
    /\ UNCHANGED <<ai_enabled, users, next_story_id, votes, clock, ai_tasks>>

\* start_voting, lines 486-502: the user, the story, its creator and
\* get_active_story() is None
StartVotingCheck(u, story_id) ==
    /\ UserExists(u)
    /\ StoryExists(story_id)
    /\ stories[story_id].creator_name = u
    /\ get_active_story = None
    /\ Len(requests) < MaxRequests
    /\ ai_enabled =>
          Len(ai_tasks) + Cardinality({r \in 1..Len(requests) :
                                          requests[r].handler = "start_voting"})
              < MaxHandlerTasks
    /\ requests' = Append(requests, Request("start_voting", "start_voting", story_id,
                                            stories[story_id].round))
    /\ UNCHANGED <<ai_enabled, users, stories, next_story_id, votes, clock, ai_tasks>>

\* start_voting, lines 505-518: db.start_voting(story_id) and
\* trigger_ai_estimation(story_id)
StartVotingUpdate(r) ==
    /\ At(r, "start_voting", "start_voting")
    /\ stories' = update_story_status(stories, requests[r].story_id, "voting")
    /\ ai_tasks' = trigger_ai_estimation(requests[r].story_id)
    /\ requests' = Respond(r)
    /\ UNCHANGED <<ai_enabled, users, next_story_id, votes, clock>>

\* complete_story, lines 647-656: the user, get_active_story() and its creator
CompleteStoryRead(u) ==
    /\ UserExists(u)
    /\ get_active_story # None
    /\ stories[get_active_story[1]].creator_name = u
    /\ Len(requests) < MaxRequests
    /\ requests' = Append(requests, Request("complete_story", "complete",
                                            get_active_story[1],
                                            stories[get_active_story[1]].round))
    /\ UNCHANGED <<ai_enabled, users, stories, next_story_id, votes, clock, ai_tasks>>

\* complete_story, lines 658-667: db.complete_story(active_story id, final_points)
CompleteStoryUpdate(r) ==
    /\ At(r, "complete_story", "complete")
    /\ stories' = update_story_status(stories, requests[r].story_id, "completed")
    /\ requests' = Proceed(r, "next_story")
    /\ UNCHANGED <<ai_enabled, users, next_story_id, votes, clock, ai_tasks>>

\* complete_story, lines 670-671: next_story = db.get_next_auto_start_story()
CompleteStoryNext(r) ==
    /\ At(r, "complete_story", "next_story")
    /\ LET next_story == get_next_auto_start_story(stories)
       IN  requests' = IF next_story # None
                       THEN [requests EXCEPT ![r].pc = "auto_start",
                                             ![r].story_id = next_story[1]]
                       ELSE Respond(r)
    /\ UNCHANGED <<ai_enabled, users, stories, next_story_id, votes, clock, ai_tasks>>

\* complete_story, lines 672-680: db.start_voting(next_story id), with no look at the
\* active story
CompleteStoryAutoStart(r) ==
    /\ At(r, "complete_story", "auto_start")
    /\ stories' = update_story_status(stories, requests[r].story_id, "voting")
    /\ requests' = Respond(r)
    /\ UNCHANGED <<ai_enabled, users, next_story_id, votes, clock, ai_tasks>>

\* new_round, lines 691-703: get_active_story(), its creator, and
\* new_round_num = round + 1
NewRoundRead(u) ==
    /\ UserExists(u)
    /\ get_active_story # None
    /\ stories[get_active_story[1]].creator_name = u
    /\ stories[get_active_story[1]].round < MaxRound
    /\ Len(requests) < MaxRequests
    /\ requests' = Append(requests, Request("new_round", "update_round",
                                            get_active_story[1],
                                            stories[get_active_story[1]].round + 1))
    /\ UNCHANGED <<ai_enabled, users, stories, next_story_id, votes, clock, ai_tasks>>

\* new_round, line 704: db.update_story_round
NewRoundUpdateRound(r) ==
    /\ At(r, "new_round", "update_round")
    /\ stories' = update_story_round(stories, requests[r].story_id, requests[r].round)
    /\ requests' = Proceed(r, "update_status")
    /\ UNCHANGED <<ai_enabled, users, next_story_id, votes, clock, ai_tasks>>

\* new_round, line 705: db.update_story_status(story id, "voting")
NewRoundUpdateStatus(r) ==
    /\ At(r, "new_round", "update_status")
    /\ stories' = update_story_status(stories, requests[r].story_id, "voting")
    /\ requests' = Respond(r)
    /\ UNCHANGED <<ai_enabled, users, next_story_id, votes, clock, ai_tasks>>

\* withdraw_story_route, lines 716-729: get_active_story() is the story
\* and the user is its creator
WithdrawStoryCheck(u, story_id) ==
    /\ UserExists(u)
    /\ get_active_story = Some(story_id)
    /\ stories[story_id].creator_name = u
    /\ Len(requests) < MaxRequests
    /\ requests' = Append(requests, Request("withdraw_story", "withdraw", story_id,
                                            stories[story_id].round))
    /\ UNCHANGED <<ai_enabled, users, stories, next_story_id, votes, clock, ai_tasks>>

\* withdraw_story_route, line 732, with database.withdraw_story: one
\* connection reads the round, deletes its votes and sets the story pending
WithdrawStoryUpdate(r) ==
    /\ At(r, "withdraw_story", "withdraw")
    /\ LET story_id == requests[r].story_id
       IN  IF StoryExists(story_id)
           THEN /\ votes' = {v \in votes :
                                ~(v.story_id = story_id /\ v.round = stories[story_id].round)}
                /\ stories' = update_story_status(stories, story_id, "pending")
           ELSE UNCHANGED <<votes, stories>>
    /\ requests' = Respond(r)
    /\ UNCHANGED <<ai_enabled, users, next_story_id, clock, ai_tasks>>

UnchangedButApp ==
    UNCHANGED <<varsConsensus, varsSimilar, varsExtract, varsChunk, varsAi>>

NextHandlers ==
    \/ \E u \in Humans : SetName(u) /\ UnchangedButApp
    \/ \E u \in Humans, start_immediately, auto_start \in BOOLEAN :
          CreateStoryInsert(u, start_immediately, auto_start) /\ UnchangedButApp
    \/ \E r \in 1..MaxRequests : CreateStoryCheckActive(r) /\ UnchangedButApp
    \/ \E r \in 1..MaxRequests : CreateStoryStartVoting(r) /\ UnchangedButApp
    \/ \E u \in Humans, story_id \in 1..MaxHandlerStories :
          StartVotingCheck(u, story_id) /\ UnchangedButApp
    \/ \E r \in 1..MaxRequests : StartVotingUpdate(r) /\ UnchangedButApp
    \/ \E u \in Humans : CompleteStoryRead(u) /\ UnchangedButApp
    \/ \E r \in 1..MaxRequests : CompleteStoryUpdate(r) /\ UnchangedButApp
    \/ \E r \in 1..MaxRequests : CompleteStoryNext(r) /\ UnchangedButApp
    \/ \E r \in 1..MaxRequests : CompleteStoryAutoStart(r) /\ UnchangedButApp
    \/ \E u \in Humans : NewRoundRead(u) /\ UnchangedButApp
    \/ \E r \in 1..MaxRequests : NewRoundUpdateRound(r) /\ UnchangedButApp
    \/ \E r \in 1..MaxRequests : NewRoundUpdateStatus(r) /\ UnchangedButApp
    \/ \E u \in Humans, story_id \in 1..MaxHandlerStories :
          WithdrawStoryCheck(u, story_id) /\ UnchangedButApp
    \/ \E r \in 1..MaxRequests : WithdrawStoryUpdate(r) /\ UnchangedButApp

SpecHandlers == InitHandlers /\ [][NextHandlers]_vars

----------------------------------------------------------------------------
(* Properties of the AI background task among the requests                  *)

\* The votes of one round of one story.
RoundVotes(vs, story_id, round_num) ==
    {v \in vs : v.story_id = story_id /\ v.round = round_num}

\* Every user in us who is no spectator has a vote in the round.
EveryoneVoted(vs, us, names, story_id, round_num) ==
    \A n \in names \cap DOMAIN us :
        ~us[n] => \E v \in RoundVotes(vs, story_id, round_num) : v.user_name = n

\* A step that stores a vote: a row is new or has changed.
VoteStored == votes' \ votes # {}

\* C22: an AI vote is only ever stored in the round that was current when
\* its estimation was triggered; once the round has moved on, the result of
\* the task is ignored.
C22_AiVoteInTriggeredRound ==
    \A t \in 1..Len(ai_tasks) :
        ai_tasks[t].pc \in {"voted", "done"} => ai_tasks[t].round = ai_tasks[t].triggered_round

\* C23: a failed estimation does not block the round: when a vote is stored
\* for a story whose estimation attempts have all failed, no AI vote exists
\* in its current round, and with that vote every human who is no spectator
\* has voted in the round, the story is revealed.
C23_FailedAiDoesNotBlock ==
    [][\A s \in DOMAIN stories :
          LET round_num == stories[s].round
              attempts == {t \in 1..Len(ai_tasks) : ai_tasks[t].story_id = s}
          IN  (/\ VoteStored
               /\ stories[s].status = "voting"
               /\ s \in DOMAIN stories'
               /\ attempts # {}
               /\ \A t \in attempts : ai_tasks[t].pc = "failed"
               /\ \A v \in RoundVotes(votes', s, round_num) : v.user_name # AI_USER_NAME
               /\ \E n \in Humans \cap DOMAIN users : ~users[n]
               /\ EveryoneVoted(votes', users, Humans, s, round_num))
              => stories'[s].status = "revealed"]_vars

\* C27: whenever a vote is stored, by /vote or by the background task, and
\* afterwards every user who is no spectator has a vote in the current round
\* of the active story, that step sets the story's status to revealed.
C27_LastVoteReveals ==
    [][\A s \in DOMAIN stories' :
          (/\ VoteStored
           /\ stories'[s].status \in {"voting", "revealed"}
           /\ EveryoneVoted(votes', users', DOMAIN users', s, stories'[s].round))
          => stories'[s].status = "revealed"]_vars

\* C28: while a story stays in status revealed in the same round, the votes
\* of that round do not change.
C28_RevealedVotesFrozen ==
    [][\A s \in DOMAIN stories :
          (/\ stories[s].status = "revealed"
           /\ s \in DOMAIN stories'
           /\ stories'[s].status = "revealed"
           /\ stories'[s].round = stories[s].round)
          => RoundVotes(votes', s, stories[s].round) = RoundVotes(votes, s, stories[s].round)]_vars

\* The votes of the AI user.
AiVotes == {v \in votes : v.user_name = AI_USER_NAME}

\* C24: one estimation attempt calls the reasoning model at most once, and
\* only with at least one story of evidence; an attempt of which a stage
\* failed has no result, casts no vote, saves no estimation record and has
\* recorded the event ai_error; an AI vote exists only when a task got as far
\* as casting it.
C24_OneCallFailureIsQuiet ==
    /\ \A t \in 1..Len(ai_tasks) :
          LET task == ai_tasks[t]
          IN  /\ task.model_calls <= 1
              /\ task.model_calls = 1 => task.evidence >= 1
              /\ task.points = None => task.pc \in {"estimating", "failed"}
              /\ task.pc = "failed" =>
                    /\ task.points = None
                    /\ task.round = None
                    /\ "ai_error" \in Range(task.events)
                    /\ "ai_vote" \notin Range(task.events)
    /\ AiVotes # {} => \E t \in 1..Len(ai_tasks) : ai_tasks[t].pc \in {"voted", "done"}

\* C24 witness: the call of the model failed, with evidence at hand; the
\* event is recorded, a human has voted and there is no AI vote.
C24_Witness ==
    /\ \E t \in 1..Len(ai_tasks) :
          /\ ai_tasks[t].pc = "failed"
          /\ ai_tasks[t].model_calls = 1
          /\ ai_tasks[t].evidence = 1
          /\ ai_tasks[t].events = <<"ai_estimating", "ai_error">>
    /\ votes # {}
    /\ AiVotes = {}

----------------------------------------------------------------------------
(* Properties of the handlers under interleaving (SpecHandlers)             *)

\* A background task that has not ended.
InFlight(task) == task.pc \in {"estimating", "estimated", "read", "voted"}

\* C21: at most one AI estimation task is in flight per story at any time.
C21_OneTaskInFlightPerStory ==
    \A s \in DOMAIN stories :
        Cardinality({t \in 1..Len(ai_tasks) :
                        ai_tasks[t].story_id = s /\ InFlight(ai_tasks[t])}) <= 1

\* C29: in every reachable state at most one story has status voting or
\* revealed.
C29_OneActiveStory ==
    Cardinality({s \in DOMAIN stories : stories[s].status \in {"voting", "revealed"}}) <= 1

====
